---- MODULE Spec2Model ----
(***************************************************************************)
(* A model of azure-pim-cli: the request backend with its retry loop, the  *)
(* batch activation / deactivation of role assignment sets, the            *)
(* convergence wait for role activation, the expiring cache, the batch     *)
(* directory lookup over the object cache, the expansion of nested groups, *)
(* the pure functions on scopes, report entries and durations, the orphan  *)
(* reconciler, the caches of a client under clear_cache, the token map,    *)
(* the order of role assignments, a single activation call, the chunks of  *)
(* a directory lookup, activate_role_admin, the locks of a client, the     *)
(* object cache under its two writers, eligible_child_resources, and the   *)
(* group cache under clear_cache.                                          *)
(*                                                                         *)
(* A behaviour of the model is a run of one of these parts, chosen by      *)
(* Init.  The variables of the parts that do not run keep their idle       *)
(* values.                                                                 *)
(***************************************************************************)
EXTENDS Integers, Sequences, FiniteSets, TLC

(***************************************************************************)
(* Bounds of the model.                                                    *)
(***************************************************************************)
\* number of distinct role assignments that exist
MaxAssignments == 2
\* largest value of the caller's --concurrency argument
MaxConcurrency == 1
\* the clock advances this many ticks beyond the largest timeout
MaxTime == 2
\* largest wait timeout, in clock ticks
MaxTimeout == 1
\* the clock of an ExpiringMap advances this many ticks
MaxClock == 2
\* largest length of the scopes contains is called with, in characters
MaxScopeLen == 3
\* largest number of entries remove_dominated_scopes is given
MaxEntries == 3
MaxListing == 3
\* largest number of ids get_objects_by_ids is called with
MaxIds == 101
\* number of tasks that call one client concurrently
MaxTasks == 2

(***************************************************************************)
(* Program constants.                                                      *)
(***************************************************************************)
\* backend.rs: const RETRY_COUNT: usize = 10
RETRY_COUNT == 10
\* activate.rs: Fixed::from(..).map(jitter).take(5)
LEGACY_RETRY_COUNT == 5
\* lib.rs: const WAIT_DELAY: Duration = Duration::from_secs(5)
WAIT_DELAY == 5
\* reqwest::StatusCode::TOO_MANY_REQUESTS
TOO_MANY_REQUESTS == 429
\* reqwest::StatusCode::BAD_REQUEST
BAD_REQUEST == 400
\* graph.rs: to_update.chunks(50)
CHUNK_SIZE == 50
CACHE_TTL == 600

(***************************************************************************)
(* Values.                                                                 *)
(***************************************************************************)
\* the activation durations a caller passes, in whole seconds
Durations == {0, 1}

\* the role assignments; a BTreeSet<RoleAssignment> iterates in this order
RoleAssignment == 1..MaxAssignments

\* status codes a provider response can carry
StatusCodes == {200, 400, 429, 500}

\* what the body of a response can be: unreadable (response.text() fails),
\* not JSON, or JSON whose error.code is one of the two benign conflicts,
\* some other code, or absent
Bodies == {"unreadable", "invalid", "RoleAssignmentExists",
           "RoleAssignmentRequestExists", "OtherError", "NoError"}

\* the outcome of executing one HTTP request: the transport fails, or a
\* response with a status and a body arrives
TransportFailure == [transport |-> TRUE, status |-> 0, body |-> "unreadable"]

Responses == [transport : {FALSE}, status : StatusCodes, body : Bodies]

Outcomes == {TransportFailure} \cup Responses

\* retry::OperationResult
OpOk == [tag |-> "Ok", error |-> "none"]

OpRetry(e) == [tag |-> "Retry", error |-> e]

OpErr(e) == [tag |-> "Err", error |-> e]

Min(S) == CHOOSE x \in S : \A y \in S : x <= y

(***************************************************************************)
(* The request backend.                                                    *)
(***************************************************************************)
\* StatusCode::is_success
is_success(status) == status >= 200 /\ status <= 299

\* activate.rs check_error_response with the second benign code forgotten
check_error_response_one_code(body) ==
    IF body = "RoleAssignmentExists" THEN "Ok" ELSE "Err"

\* activate.rs check_error_response: Ok for the two benign conflict codes,
\* an error for every other body
check_error_response(body) ==
    IF body = "RoleAssignmentExists" THEN "Ok"
    ELSE IF body = "RoleAssignmentRequestExists" THEN "Ok"
    ELSE "Err"

\* Response::error_for_status: an error for 4xx and 5xx
error_for_status(status) ==
    IF status >= 400 /\ status <= 599 THEN "Err" ELSE "Ok"

\* the validation of an activation response, as activate_role does it: a
\* 400 is judged by check_error_response, any other status by
\* error_for_status
validate_activation(status, body) ==
    IF status = BAD_REQUEST THEN check_error_response(body)
    ELSE error_for_status(status)

\* try_request with every rejected response retried
try_request_retry_rejected(o, validate) ==
    IF o.transport THEN OpRetry("transport")
    ELSE IF o.status = TOO_MANY_REQUESTS THEN OpRetry("rate limited")
    ELSE IF o.body = "unreadable" THEN OpErr("body")
    ELSE IF o.body = "invalid" THEN OpErr("json")
    ELSE IF validate # "None"
         THEN IF validate_activation(o.status, o.body) = "Ok"
              THEN OpOk ELSE OpRetry("validate")
    ELSE IF ~is_success(o.status) THEN OpRetry("request failed")
    ELSE OpOk

\* try_request with a body that cannot be read or decoded retried
try_request_retry_body(o, validate) ==
    IF o.transport THEN OpRetry("transport")
    ELSE IF o.status = TOO_MANY_REQUESTS THEN OpRetry("rate limited")
    ELSE IF o.body = "unreadable" THEN OpRetry("body")
    ELSE IF o.body = "invalid" THEN OpRetry("json")
    ELSE IF validate # "None"
         THEN IF validate_activation(o.status, o.body) = "Ok"
              THEN OpOk ELSE OpErr("validate")
    ELSE IF ~is_success(o.status) THEN OpErr("request failed")
    ELSE OpOk

\* Backend::try_request: one attempt
try_request(o, validate) ==
    IF o.transport THEN OpRetry("transport")
    ELSE IF o.status = TOO_MANY_REQUESTS THEN OpRetry("rate limited")
    ELSE IF o.body = "unreadable" THEN OpErr("body")
    ELSE IF o.body = "invalid" THEN OpErr("json")
    ELSE IF validate # "None"
         THEN IF validate_activation(o.status, o.body) = "Ok"
              THEN OpOk ELSE OpErr("validate")
    ELSE IF ~is_success(o.status) THEN OpErr("request failed")
    ELSE OpOk

\* the closure `func` of activate.rs activate_role: one attempt
activate_role_func(o) ==
    IF o.transport THEN OpErr("transport")
    ELSE IF o.status = TOO_MANY_REQUESTS THEN OpRetry("rate limited")
    ELSE IF o.status = BAD_REQUEST
         THEN IF o.body \in {"unreadable", "invalid"} THEN OpErr("json")
              ELSE IF check_error_response(o.body) = "Ok"
                   THEN OpOk ELSE OpErr("validate")
    ELSE IF error_for_status(o.status) = "Err" THEN OpErr("status")
    ELSE IF o.body \in {"unreadable", "invalid"} THEN OpErr("json")
    ELSE OpOk

\* the delay iterator with one delay too many
has_next_delay_one_more(used, count) == used <= count

\* Iterator::next on the delays `.take(count)`: a delay is left iff fewer
\* than count have been taken
has_next_delay(used, count) == used < count

\* what retry::retry does with the result of one attempt, `used` delays
\* having been taken from an iterator of `count` delays: it returns on Ok
\* and on Err, and on Retry it takes the next delay and tries again, or
\* returns the error of this attempt when no delay is left
retry(r, used, count) ==
    IF r.tag = "Ok" THEN [done |-> TRUE, result |-> "Ok", error |-> "none", used |-> used]
    ELSE IF r.tag = "Err" THEN [done |-> TRUE, result |-> "Err", error |-> r.error, used |-> used]
    ELSE IF has_next_delay(used, count)
         THEN [done |-> FALSE, result |-> "none", error |-> "none", used |-> used + 1]
         ELSE [done |-> TRUE, result |-> "Err", error |-> r.error, used |-> used]

\* the three ways the program sends a request: RequestBuilder::send with
\* the activation validator, RequestBuilder::send without a validator, and
\* activate.rs activate_role
RequestKinds == {"send_validated", "send_plain", "activate_role"}

\* one attempt of a request of the given kind
attempt(kind, o) ==
    IF kind = "send_validated" THEN try_request(o, "check_error_response")
    ELSE IF kind = "send_plain" THEN try_request(o, "None")
    ELSE activate_role_func(o)

\* the number of delays the retry loop of a request of the given kind has
retries_take(kind) ==
    IF kind = "activate_role" THEN LEGACY_RETRY_COUNT ELSE RETRY_COUNT

\* the response that reports that the desired state already holds
IsBenignConflict(o) ==
    /\ ~o.transport
    /\ o.status = BAD_REQUEST
    /\ o.body \in {"RoleAssignmentExists", "RoleAssignmentRequestExists"}

\* an outcome the retry protocol calls transient
IsTransient(o) == o.transport \/ o.status = TOO_MANY_REQUESTS

(***************************************************************************)
(* State.                                                                  *)
(***************************************************************************)
VARIABLES
    \* --- one request in its retry loop ---
    req_kind,       \* which code path sends the request
    rpc,            \* "trying" while the retry loop runs, then "done"
    tries,          \* attempts executed so far
    delays_used,    \* delays taken from the delay iterator
    last_outcome,   \* outcome of the latest attempt
    had_delay,      \* a delay was left when the latest attempt ended
    all_retryable,  \* every attempt so far ended in a retryable failure
    req_result,     \* "none", then "Ok" or "Err"
    req_error,      \* the error returned with "Err"
    \* --- a set operation ---
    assignments,    \* the input set
    op,             \* "activate" or "deactivate"
    concurrency,    \* the caller's concurrency argument
    duration,       \* activation duration, whole seconds
    token_ok,       \* the token provider yields a token
    bpc,            \* "call", "join", "done"
    task,           \* per assignment: the state of its call
    issued,         \* assignments whose PUT has been sent
    failed,         \* the failed set the operation collects
    bresult,        \* "none", then the result of the set operation
    \* --- wait_for_role_activation ---
    input,          \* the set the wait is called with
    wait_timeout,   \* the configured timeout, in clock ticks
    now,            \* the monotonic clock
    start,          \* Instant taken when the wait begins
    last,           \* Instant of the previous iteration, -1 for None
    waiting,        \* the assignments still waited for
    wpc,            \* "call", "loop", "listing", "done"
    wresult,        \* "none", then the result of the wait
    wlisted,        \* the assignments the timeout error lists
    active,         \* the assignments active at the provider
    observed,       \* input assignments some listing has contained
    some_active,    \* an input assignment has been active during the wait
    all_active,     \* every input assignment has been active throughout
    listed_at,      \* history: start of the latest list call, -1 for none
    wait_sent,      \* history: the requests the wait has issued
    \* --- an ExpiringMap ---
    data,           \* the stored entries: key -> [value, expiration]
    ttl,            \* the map's `duration`, in clock ticks; 0 while idle
    clock,          \* Instant::now()
    cache_last,     \* the operation that produced this state, and its result
    inserted,       \* history: key -> value and time of its latest insert
    \* --- get_objects_by_ids ---
    object_cache,   \* PimClient::object_cache: id -> [value, expiration]
    object_ttl,     \* the duration of the object cache; 0 while idle
    instant,        \* Instant::now()
    gpc,            \* "idle"; "ready"; "inflight" while a call holds the lock
    ids,            \* the ids the call was given
    to_update,      \* the ids the call sends to the directory
    gresult,        \* what the latest call returned
    carried_at,     \* history: id -> time of the latest call carrying it
    looked_up,      \* history: id -> latest answer of the directory for it
    \* --- PimClient::group_members ---
    members,        \* the directory: group id -> its direct members
    root,           \* the id the call was given
    nested,         \* the nested argument
    todo,           \* the worklist
    done,           \* the group ids already fetched
    results,        \* the members accumulated so far
    epc,            \* "idle"; "call", "loop", "returned"
    eresult,        \* "none", then "Ok" or "Err"
    fetches,        \* history: group id -> fetches of its direct members
    \* --- a method of Scope ---
    scope_fn,       \* "idle", or the method called
    scope_self,     \* the scope the method is called on
    scope_other,    \* the argument: of contains, or what a scope is built from
    scope_ret,      \* None, then Some of the value returned
    \* --- dump-roles remove_dominated_scopes ---
    dump_data,      \* the entries the function is given
    dump_ret,       \* None, then Some of the entries returned
    \* --- format_duration ---
    as_secs,        \* the whole seconds of the duration; -1 while idle
    format_ret,     \* None, then Some of the Result returned
    \* --- delete_orphaned_(eligible_)role_assignments ---
    orphan_fn,      \* "idle", or "plain" or "eligible": the function called
    answer_yes,     \* the answer_yes argument
    listed,         \* the entries the provider lists, in order
    opc,            \* "idle"; "call", "loop", "prompt", "delete", "done"
    remaining,      \* positions of the listing the loop has yet to visit
    answered,       \* per entry: the answer confirm returned, if it was asked
    deletes,        \* positions of the entries a delete request was sent for
    oresult,        \* None, then Some of the Result returned
    \* --- the caches of a PimClient under clear_cache ---
    pim_objects,    \* PimClient::object_cache
    pim_definitions,\* PimClient::role_definitions_cache
    objects_held,   \* a get_objects_by_ids call holds the object cache lock
    definitions_held, \* a role_definitions call holds its cache's lock
    wanted,         \* the ids of the get_objects_by_ids call in flight
    sent,           \* the ids it sent to the directory
    definitions_from, \* "none"; "cache" or "provider": what served the
                    \* latest role_definitions call
    clear_pc,       \* "idle"; "ready", "called", "objects", "returned"
    marked_objects, \* history: ids cached when clear_cache was called and
                    \* not inserted since
    marked_definitions, \* history: the same for the scopes
    \* --- Backend::get_token ---
    tokens,         \* Backend::tokens: token scope -> token
    token_lock,     \* the task that holds the lock of the map, 0 for none
    token_task,     \* per task: its call of get_token
    invocations,    \* history: token scope -> invocations of the provider
    \* --- the order of RoleAssignment ---
    ra_fn,          \* "idle", or "cmp" or "wait": what is done with the two
    ra_entry,       \* a role assignment the caller holds
    ra_active,      \* a role assignment a listing returned
    ra_ret,         \* None, then Some of the outcome
    \* --- one call of activate_role_assignment / extend_role_assignment ---
    call_fn,        \* "idle", or the function called
    call_secs,      \* duration.as_secs()
    call_token,     \* principal_id() yields the principal id
    call_pc,        \* "idle"; "call", "sent", "done"
    call_used,      \* delays taken by the retry loop of the PUT
    call_puts,      \* history: attempts of the PUT that were sent
    call_ret,       \* None, then Some of the Result returned
    \* --- the chunks of get_objects_by_ids ---
    chunk_pc,       \* "idle"; "call", "sent"
    chunk_ids,      \* the ids the call is given
    chunk_cache,    \* the object cache when the call is made
    chunk_calls,    \* the calls of get_objects_by_ids_small: the ids of each
    \* --- activate_role_admin ---
    rbac_pc,        \* "idle"; "call", "eligible", "activate", "done"
    rbac_active,    \* what the listing of the active assignments returns
    rbac_eligible,  \* what the listing of the eligible assignments returns
    rbac_token,     \* principal_id() yields the principal id
    rbac_secs,      \* duration.as_secs()
    rbac_calls,     \* history: the entries activate_role_assignment was
                    \* called with
    rbac_puts,      \* history: the entries an activation request was sent for
    rbac_ret,       \* None, then Some of the Result returned
    \* --- the locks of a PimClient ---
    locks_pc,       \* "idle", or "run" while tasks call the client
    lock_holder,    \* lock -> the task that holds it, 0 for none
    lock_rest,      \* task -> the lock operations its call has yet to do
    \* --- the object cache under get_objects_by_ids and group_members ---
    obj_pc,         \* "idle"; "ready"; "inflight" while a lookup holds the lock
    obj_cache,      \* PimClient::object_cache
    obj_now,        \* Instant::now(), in seconds
    obj_sent,       \* the ids the lookup in flight sent to the directory
    obj_last,       \* the latest call that returned, and what it returned
    \* --- eligible_child_resources ---
    child_pc,       \* "idle"; "loop", "returned"
    children,       \* the provider: scope -> the child resources it lists
    child_root,     \* the scope the call is given
    child_nested,   \* the nested argument
    child_todo,     \* todo
    child_seen,     \* seen
    child_result,   \* result
    child_ret,      \* "none", then "Ok" or "Err"
    child_requests, \* history: scope -> requests sent for it
    \* --- the group cache of a client under clear_cache ---
    gm_pc,          \* "idle"; "ready", "clearing" (clear_cache between its
                    \* two statements)
    gm_now,         \* Instant::now()
    gm_groups,      \* PimClient::group_cache
    gm_objects,     \* PimClient::object_cache
    gm_definitions, \* PimClient::role_definitions_cache
    gm_fetched,     \* history: group -> its latest fetch from the directory
    gm_cleared,     \* history: group -> clear_cache returned since that fetch
    gm_last         \* the latest call of group_members and what it did

requestVars == <<req_kind, rpc, tries, delays_used, last_outcome, had_delay,
                 all_retryable, req_result, req_error>>

batchVars == <<assignments, op, concurrency, duration, token_ok, bpc, task,
               issued, failed, bresult>>

waitVars == <<input, wait_timeout, now, start, last, waiting, wpc, wresult,
              wlisted, active, observed, some_active, all_active, listed_at,
              wait_sent>>

cacheVars == <<data, ttl, clock, cache_last, inserted>>

\* the parts of the client, and the library parts beside it
clientVars == <<requestVars, batchVars, waitVars>>

directoryVars == <<object_cache, object_ttl, instant, gpc, ids, to_update,
                   gresult, carried_at, looked_up>>

groupVars == <<members, root, nested, todo, done, results, epc, eresult,
               fetches>>

scopeVars == <<scope_fn, scope_self, scope_other, scope_ret>>

dumpVars == <<dump_data, dump_ret>>

formatVars == <<as_secs, format_ret>>

\* the pure functions
pureVars == <<scopeVars, dumpVars, formatVars>>

orphanVars == <<orphan_fn, answer_yes, listed, opc, remaining, answered,
                deletes, oresult>>

\* the further parts: the orphan reconciler, the caches of a client, the
\* token map, the order of role assignments, a single activation call
cachesVars == <<pim_objects, pim_definitions, objects_held, definitions_held,
                wanted, sent, definitions_from, clear_pc, marked_objects,
                marked_definitions>>

tokenVars == <<tokens, token_lock, token_task, invocations>>

orderVars == <<ra_fn, ra_entry, ra_active, ra_ret>>

callVars == <<call_fn, call_secs, call_token, call_pc, call_used, call_puts,
              call_ret>>

adminVars == <<orphanVars, cachesVars, tokenVars, orderVars, callVars>>

chunkVars == <<chunk_pc, chunk_ids, chunk_cache, chunk_calls>>

\* the parts on the remaining operations of the client
rbacVars == <<rbac_pc, rbac_active, rbac_eligible, rbac_token, rbac_secs,
              rbac_calls, rbac_puts, rbac_ret>>

locksVars == <<locks_pc, lock_holder, lock_rest>>

objVars == <<obj_pc, obj_cache, obj_now, obj_sent, obj_last>>

childVars == <<child_pc, children, child_root, child_nested, child_todo,
               child_seen, child_result, child_ret, child_requests>>

gmVars == <<gm_pc, gm_now, gm_groups, gm_objects, gm_definitions, gm_fetched,
            gm_cleared, gm_last>>

restVars == <<chunkVars, rbacVars, locksVars, objVars, childVars, gmVars>>

libraryVars == <<cacheVars, directoryVars, groupVars, pureVars, adminVars,
                 restVars>>

vars == <<clientVars, libraryVars>>

(***************************************************************************)
(* One request in its retry loop.                                          *)
(***************************************************************************)
RequestIdle ==
    /\ req_kind = "send_plain"
    /\ rpc = "idle"
    /\ tries = 0
    /\ delays_used = 0
    /\ last_outcome = TransportFailure
    /\ had_delay = FALSE
    /\ all_retryable = TRUE
    /\ req_result = "none"
    /\ req_error = "none"

\* the state when retry_request (or activate_role) enters its retry loop
RequestInit ==
    /\ req_kind \in RequestKinds
    /\ rpc = "trying"
    /\ tries = 0
    /\ delays_used = 0
    /\ last_outcome = TransportFailure
    /\ had_delay = FALSE
    /\ all_retryable = TRUE
    /\ req_result = "none"
    /\ req_error = "none"

\* one turn of the retry loop: the attempt is made, its outcome arrives
\* and retry() either returns or sleeps for the next delay
RequestAttempt ==
    /\ rpc = "trying"
    /\ \E o \in Outcomes :
         LET r == attempt(req_kind, o)
             next == retry(r, delays_used, retries_take(req_kind))
         IN /\ tries' = tries + 1
            /\ last_outcome' = o
            /\ had_delay' = has_next_delay(delays_used, retries_take(req_kind))
            /\ all_retryable' = (all_retryable /\ r.tag = "Retry")
            /\ delays_used' = next.used
            /\ rpc' = IF next.done THEN "done" ELSE "trying"
            /\ req_result' = next.result
            /\ req_error' = next.error
    /\ UNCHANGED req_kind
    /\ UNCHANGED <<batchVars, waitVars, libraryVars>>

(***************************************************************************)
(* activate_role_assignment_set / deactivate_role_assignment_set.          *)
(***************************************************************************)
\* the decimal digits, as characters
DigitChars == <<"0", "1", "2", "3", "4", "5", "6", "7", "8", "9">>

\* u64 Display: the decimal digits of n, most significant first
RECURSIVE to_string(_)
to_string(n) ==
    IF n < 10 THEN <<DigitChars[n + 1]>>
    ELSE to_string(n \div 10) \o <<DigitChars[(n % 10) + 1]>>

\* format_duration with the minutes taken from the whole duration
format_duration_total_minutes(secs) ==
    LET hours == secs \div 3600
        minutes == secs \div 60
        seconds == (secs % 3600) % 60
        parts == (IF hours > 0 THEN to_string(hours) \o <<"H">> ELSE <<>>)
                 \o (IF minutes > 0 THEN to_string(minutes) \o <<"M">> ELSE <<>>)
                 \o (IF seconds > 0 THEN to_string(seconds) \o <<"S">> ELSE <<>>)
    IN IF parts = <<>> THEN [ok |-> FALSE, text |-> <<>>]
       ELSE [ok |-> TRUE, text |-> <<"P", "T">> \o parts]

\* format_duration: "PT", then the hours, minutes and seconds of the
\* duration, each with its unit letter and left out when zero; an error
\* when nothing is left.  The text is a sequence of characters.
format_duration(secs) ==
    LET hours == secs \div 3600
        minutes == (secs % 3600) \div 60
        seconds == (secs % 3600) % 60
        parts == (IF hours > 0 THEN to_string(hours) \o <<"H">> ELSE <<>>)
                 \o (IF minutes > 0 THEN to_string(minutes) \o <<"M">> ELSE <<>>)
                 \o (IF seconds > 0 THEN to_string(seconds) \o <<"S">> ELSE <<>>)
    IN IF parts = <<>> THEN [ok |-> FALSE, text |-> <<>>]
       ELSE [ok |-> TRUE, text |-> <<"P", "T">> \o parts]

\* the body built whenever there is a principal id
body_ok_any_duration(o, tok, secs) == tok

\* the part of activate_role_assignment / deactivate_role_assignment that
\* runs before the request is sent: the request body needs the principal id
\* (which needs a token) and, for an activation, the formatted duration
body_ok(o, tok, secs) ==
    /\ tok
    /\ (o = "activate" => format_duration(secs).ok)

\* the state of the call for one assignment
TaskIdle == [st |-> "idle", used |-> 0, result |-> "none",
             outcome |-> "none", benign |-> FALSE]

\* a match that yields no ActivationResult
ActivationResult_pending(result) == "none"

\* the match that turns the Result of a call into an ActivationResult
ActivationResult(result) == IF result = "Ok" THEN "Success" ELSE "Failed"

\* the call for one assignment has returned with the given result
TaskDone(result, benign) ==
    [st |-> "done", used |-> 0, result |-> result,
     outcome |-> ActivationResult(result), benign |-> benign]

\* the emptiness check left out
ensure_not_empty_missing(set) == TRUE

\* ensure!(!assignments.is_empty(), "no roles specified")
ensure_not_empty(set) == set # {}

\* a join that returns as soon as one call has failed
join_all_fail_fast(t, set) ==
    \/ \A a \in set : t[a].st = "done"
    \/ \E a \in set : t[a].outcome = "Failed"

\* futures::future::join_all is ready when every future has completed
join_all(t, set) == \A a \in set : t[a].st = "done"

\* a collection loop that overlooks the first failed entry
collect_failed_skip_first(t, set) ==
    LET f == {a \in set : t[a].outcome = "Failed"}
    IN IF f = {} THEN {} ELSE f \ {Min(f)}

\* the loop over the results: the entry of every ActivationResult::Failed
\* is inserted into `failed`
collect_failed(t, set) == {a \in set : t[a].outcome = "Failed"}

BatchIdle ==
    /\ assignments = {}
    /\ op = "activate"
    /\ concurrency = 1
    /\ duration = 1
    /\ token_ok = TRUE
    /\ bpc = "idle"
    /\ task = [a \in RoleAssignment |-> TaskIdle]
    /\ issued = {}
    /\ failed = {}
    /\ bresult = "none"

\* the arguments of a set operation and the state of the token provider
BatchInit ==
    /\ assignments \in SUBSET RoleAssignment
    /\ op \in {"activate", "deactivate"}
    /\ concurrency \in 1..MaxConcurrency
    /\ duration \in Durations
    /\ token_ok \in BOOLEAN
    /\ bpc = "call"
    /\ task = [a \in RoleAssignment |-> TaskIdle]
    /\ issued = {}
    /\ failed = {}
    /\ bresult = "none"

\* the set operation is entered: an empty set is rejected, otherwise one
\* future per assignment is created and handed to join_all
SetCall ==
    /\ bpc = "call"
    /\ IF ensure_not_empty(assignments)
       THEN /\ bpc' = "join"
            /\ task' = [a \in RoleAssignment |->
                          IF a \in assignments
                          THEN [TaskIdle EXCEPT !.st = "pending"]
                          ELSE TaskIdle]
            /\ bresult' = "none"
       ELSE /\ bpc' = "done"
            /\ bresult' = "no roles specified"
            /\ UNCHANGED task
    /\ UNCHANGED <<assignments, op, concurrency, duration, token_ok, issued, failed>>
    /\ UNCHANGED <<requestVars, waitVars, libraryVars>>

\* join_all polls the futures in the order of the set: the call for the
\* next assignment starts.  It fails at once when the request body cannot
\* be built, otherwise its PUT is sent.
PollStart(a) ==
    /\ bpc = "join"
    /\ ~join_all(task, assignments)
    /\ task[a].st = "pending"
    /\ a = Min({b \in assignments : task[b].st = "pending"})
    /\ IF body_ok(op, token_ok, duration)
       THEN /\ task' = [task EXCEPT ![a].st = "inflight"]
            /\ issued' = issued \cup {a}
       ELSE /\ task' = [task EXCEPT ![a] = TaskDone("Err", FALSE)]
            /\ UNCHANGED issued
    /\ UNCHANGED <<assignments, op, concurrency, duration, token_ok, bpc, failed, bresult>>
    /\ UNCHANGED <<requestVars, waitVars, libraryVars>>

\* the outcome of one attempt of the PUT for assignment a arrives: the call
\* returns, or its retry loop sleeps and sends the request again
Respond(a) ==
    /\ bpc = "join"
    /\ ~join_all(task, assignments)
    /\ task[a].st = "inflight"
    /\ \E e \in {[r |-> try_request(o, "check_error_response"),
                  benign |-> IsBenignConflict(o)] : o \in Outcomes} :
         LET next == retry(e.r, task[a].used, RETRY_COUNT)
         IN task' = [task EXCEPT ![a] =
                        IF next.done
                        THEN TaskDone(next.result, e.benign)
                        ELSE [@ EXCEPT !.used = next.used]]
    /\ UNCHANGED <<assignments, op, concurrency, duration, token_ok, bpc, issued, failed, bresult>>
    /\ UNCHANGED <<requestVars, waitVars, libraryVars>>

\* join_all has returned: the failed entries are collected and the set
\* operation returns
JoinAll ==
    /\ bpc = "join"
    /\ join_all(task, assignments)
    /\ failed' = collect_failed(task, assignments)
    /\ bresult' = IF failed' # {} THEN "failed" ELSE "Ok"
    /\ bpc' = "done"
    /\ UNCHANGED <<assignments, op, concurrency, duration, token_ok, task, issued>>
    /\ UNCHANGED <<requestVars, waitVars, libraryVars>>

(***************************************************************************)
(* wait_for_role_activation.                                               *)
(***************************************************************************)
\* Duration::saturating_sub, and Instant::duration_since, which saturates
\* to zero when the argument is the later instant
saturating_sub(a, b) == IF a > b THEN a - b ELSE 0

\* the timeout test with its operands exchanged
timed_out_swapped(elapsed, timeout) == timeout > elapsed

\* start.elapsed() > wait_timeout
timed_out(elapsed, timeout) == elapsed > timeout

\* the time the loop sleeps before it lists again:
\* last.duration_since(current).saturating_sub(WAIT_DELAY), nothing when
\* last is None
to_wait(l, current) ==
    IF l = -1 THEN 0
    ELSE saturating_sub(saturating_sub(l, current), WAIT_DELAY)

\* a retain whose test lost its negation
retain_active(w, listing) == w \cap listing

\* waiting.retain(|entry| !active.contains(entry))
retain(w, listing) == w \ listing

\* the test of the filter inverted
with_principal_inverted(filter) == filter = "AsTarget"

\* let with_principal = filter.as_ref() != Some(&ListFilter::AsTarget)
with_principal(filter) == filter # "AsTarget"

\* the requests of the client, by method and target
ListActive == [method |-> "GET", target |-> "roleAssignmentScheduleInstances"]

GetByIds == [method |-> "POST", target |-> "directoryObjects/getByIds"]

\* the requests list_active_role_assignments issues: the GET of the
\* listing and, with_principal, the directory lookup of the principals
list_active_role_assignments(filter) ==
    {ListActive} \cup (IF with_principal(filter) THEN {GetByIds} ELSE {})

WaitIdle ==
    /\ input = {}
    /\ wait_timeout = 0
    /\ now = 0
    /\ start = 0
    /\ last = -1
    /\ waiting = {}
    /\ wpc = "idle"
    /\ wresult = "none"
    /\ wlisted = {}
    /\ active = {}
    /\ observed = {}
    /\ some_active = FALSE
    /\ all_active = FALSE
    /\ listed_at = -1
    /\ wait_sent = {}

\* the arguments of the wait and the state of the provider
WaitInit ==
    /\ input \in SUBSET RoleAssignment
    /\ wait_timeout \in 0..MaxTimeout
    /\ now = 0
    /\ start = 0
    /\ last = -1
    /\ waiting = {}
    /\ wpc = "call"
    /\ wresult = "none"
    /\ wlisted = {}
    /\ active \in SUBSET RoleAssignment
    /\ observed = {}
    /\ some_active = (active \cap input # {})
    /\ all_active = (input \subseteq active)
    /\ listed_at = -1
    /\ wait_sent = {}

\* the wait with its early return forgotten
WaitCall_no_early_return ==
    /\ wpc = "call"
    /\ wpc' = "loop"
    /\ start' = now
    /\ last' = -1
    /\ waiting' = input
    /\ UNCHANGED <<input, wait_timeout, now, wresult, wlisted, active,
                   observed, some_active, all_active, listed_at, wait_sent>>
    /\ UNCHANGED <<requestVars, batchVars, libraryVars>>

\* the wait is entered: an empty set returns at once, otherwise the clock
\* is read and the waiting set is the input set
WaitCall ==
    /\ wpc = "call"
    /\ IF input = {}
       THEN /\ wpc' = "done"
            /\ wresult' = "Ok"
            /\ UNCHANGED <<start, last, waiting>>
       ELSE /\ wpc' = "loop"
            /\ start' = now
            /\ last' = -1
            /\ waiting' = input
            /\ UNCHANGED wresult
    /\ UNCHANGED <<input, wait_timeout, now, wlisted, active, observed,
                   some_active, all_active, listed_at, wait_sent>>
    /\ UNCHANGED <<requestVars, batchVars, libraryVars>>

\* the head of the loop up to the list call: the loop ends when nothing is
\* waited for or the timeout has passed, and then the wait returns;
\* otherwise it sleeps for to_wait and sends the list request
WaitLoop ==
    /\ wpc = "loop"
    /\ IF waiting = {}
       THEN /\ wpc' = "done"
            /\ wresult' = "Ok"
            /\ UNCHANGED <<now, last, wlisted, listed_at, wait_sent>>
       ELSE IF timed_out(now - start, wait_timeout)
       THEN /\ wpc' = "done"
            /\ wresult' = "timed out"
            /\ wlisted' = waiting
            /\ UNCHANGED <<now, last, listed_at, wait_sent>>
       ELSE /\ wpc' = "listing"
            /\ now' = now + to_wait(last, now)
            /\ last' = now
            /\ listed_at' = now'
            /\ wait_sent' = wait_sent
                    \cup list_active_role_assignments("AsTarget")
            /\ UNCHANGED <<wresult, wlisted>>
    /\ UNCHANGED <<input, wait_timeout, start, waiting, active, observed,
                   some_active, all_active>>
    /\ UNCHANGED <<requestVars, batchVars, libraryVars>>

\* list_active_role_assignments returns the assignments active at the
\* provider: they are removed from the waiting set
ListOk ==
    /\ wpc = "listing"
    /\ waiting' = retain(waiting, active)
    /\ observed' = observed \cup (active \cap input)
    /\ wpc' = "loop"
    /\ UNCHANGED <<input, wait_timeout, now, start, last, wresult, wlisted,
                   active, some_active, all_active, listed_at, wait_sent>>
    /\ UNCHANGED <<requestVars, batchVars, libraryVars>>

\* list_active_role_assignments fails (the request or the parsing of its
\* response): the error is returned by the `?`
ListErr ==
    /\ wpc = "listing"
    /\ wpc' = "done"
    /\ wresult' = "list error"
    /\ UNCHANGED <<input, wait_timeout, now, start, last, waiting, wlisted,
                   active, observed, some_active, all_active, listed_at, wait_sent>>
    /\ UNCHANGED <<requestVars, batchVars, libraryVars>>

\* time passes
Tick ==
    /\ wpc \in {"loop", "listing"}
    /\ now < MaxTimeout + MaxTime
    /\ now' = now + 1
    /\ UNCHANGED <<input, wait_timeout, start, last, waiting, wpc, wresult,
                   wlisted, active, observed, some_active, all_active, listed_at, wait_sent>>
    /\ UNCHANGED <<requestVars, batchVars, libraryVars>>

\* the provider activates or deactivates assignments
ProviderChange ==
    /\ wpc \in {"loop", "listing"}
    /\ \E s \in SUBSET RoleAssignment :
         /\ s # active
         /\ active' = s
         /\ some_active' = (some_active \/ s \cap input # {})
         /\ all_active' = (all_active /\ input \subseteq s)
    /\ UNCHANGED <<input, wait_timeout, now, start, last, waiting, wpc,
                   wresult, wlisted, observed, listed_at, wait_sent>>
    /\ UNCHANGED <<requestVars, batchVars, libraryVars>>

(***************************************************************************)
(* ExpiringMap.                                                            *)
(***************************************************************************)
\* the keys and values a map is exercised with
Keys == {"a", "b", "c"}

Values == {"b", "c"}

\* Option
None == [some |-> FALSE]

Some(v) == [some |-> TRUE, value |-> v]

\* the durations a map is built with, in clock ticks
Ttls == {1, 2}

\* Value::new: a stored value and the Instant at which it expires
Value(value, expiration) == [value |-> value, expiration |-> expiration]

\* Value::is_expired
is_expired(v, t) == v.expiration < t

\* cleanup that keeps the entries that expire at this very instant
cleanup_keep_boundary(d, t) ==
    [k \in {x \in DOMAIN d : d[x].expiration >= t} |-> d[k]]

\* ExpiringMap::cleanup: data.retain(|_, v| v.expiration > now)
cleanup(d, t) ==
    [k \in {x \in DOMAIN d : d[x].expiration > t} |-> d[k]]

\* ExpiringMap::insert: the sweep, then the entry with expiration now + duration
insert(d, key, value, t, dur) ==
    LET swept == cleanup(d, t)
    IN [k \in DOMAIN swept \cup {key} |->
            IF k = key THEN Value(value, t + dur) ELSE swept[k]]

\* ExpiringMap::get: the stored value unless the entry is expired
get(d, key, t) ==
    IF key \in DOMAIN d /\ ~is_expired(d[key], t) THEN Some(d[key].value)
    ELSE None

\* ExpiringMap::contains_key
contains_key(d, key, t) == get(d, key, t).some

\* HashMap::new(): no entries
EmptyMap == [k \in {} |-> None]

NoOperation == [op |-> "none", key |-> "none", ret |-> None]

CacheIdle ==
    /\ data = EmptyMap
    /\ ttl = 0
    /\ clock = 0
    /\ cache_last = NoOperation
    /\ inserted = EmptyMap

\* ExpiringMap::new(duration)
CacheInit ==
    /\ data = EmptyMap
    /\ ttl \in Ttls
    /\ clock = 0
    /\ cache_last = NoOperation
    /\ inserted = EmptyMap

\* insert(k, v)
CacheInsert(k, v) ==
    /\ ttl > 0
    /\ data' = insert(data, k, v, clock, ttl)
    /\ cache_last' = [op |-> "insert", key |-> k, ret |-> Some(v)]
    /\ inserted' = [x \in DOMAIN inserted \cup {k} |->
                        IF x = k THEN [value |-> v, at |-> clock]
                        ELSE inserted[x]]
    /\ UNCHANGED <<ttl, clock>>
    /\ UNCHANGED <<clientVars, restVars, adminVars, directoryVars, groupVars, pureVars>>

\* get(k)
CacheGet(k) ==
    /\ ttl > 0
    /\ cache_last' = [op |-> "get", key |-> k, ret |-> get(data, k, clock)]
    /\ UNCHANGED <<data, ttl, clock, inserted>>
    /\ UNCHANGED <<clientVars, restVars, adminVars, directoryVars, groupVars, pureVars>>

\* contains_key(k)
CacheContainsKey(k) ==
    /\ ttl > 0
    /\ cache_last' = [op |-> "contains_key", key |-> k,
                      ret |-> Some(contains_key(data, k, clock))]
    /\ UNCHANGED <<data, ttl, clock, inserted>>
    /\ UNCHANGED <<clientVars, restVars, adminVars, directoryVars, groupVars, pureVars>>

\* time passes between two operations on the map
CacheTick ==
    /\ ttl > 0
    /\ clock < MaxClock
    /\ clock' = clock + 1
    /\ cache_last' = NoOperation
    /\ UNCHANGED <<data, ttl, inserted>>
    /\ UNCHANGED <<clientVars, restVars, adminVars, directoryVars, groupVars, pureVars>>

(***************************************************************************)
(* graph.rs get_objects_by_ids, over the object cache.                     *)
(***************************************************************************)
\* the object ids of the directory; an Object is identified by its id
ObjectIds == {1, 2}

\* the elements of a set in ascending order, as a BTreeSet iterates
RECURSIVE SetToSeq(_)
SetToSeq(S) ==
    IF S = {} THEN <<>> ELSE <<Min(S)>> \o SetToSeq(S \ {Min(S)})

Range(seq) == {seq[i] : i \in 1..Len(seq)}

\* chunks that take one element too many
RECURSIVE chunks_one_more(_, _)
chunks_one_more(seq, n) ==
    IF Len(seq) = 0 THEN <<>>
    ELSE IF Len(seq) <= n + 1 THEN <<seq>>
    ELSE <<SubSeq(seq, 1, n + 1)>>
            \o chunks_one_more(SubSeq(seq, n + 2, Len(seq)), n)

\* slice::chunks(n): consecutive pieces of n elements, the last one shorter
RECURSIVE chunks(_, _)
chunks(seq, n) ==
    IF Len(seq) = 0 THEN <<>>
    ELSE IF Len(seq) <= n THEN <<seq>>
    ELSE <<SubSeq(seq, 1, n)>> \o chunks(SubSeq(seq, n + 1, Len(seq)), n)

\* the Result of get_objects_by_ids_small for one chunk: an error, or the
\* objects the directory returned for it
ChunkErr == [ok |-> FALSE, found |-> {}]

ChunkResults(cs) ==
    {r \in [1..Len(cs) -> {ChunkErr} \cup [ok : {TRUE}, found : SUBSET ObjectIds]] :
        \A i \in 1..Len(cs) : r[i].found \subseteq Range(cs[i])}

\* the filter that forgets the cache
not_cached_all(cache, requested, t) == requested

\* ids.iter().filter(|id| !cache.contains_key(id))
not_cached(cache, requested, t) ==
    {id \in requested : ~contains_key(cache, id, t)}

\* for entry in chunk { cache.insert(entry.id, Some(entry)) }
RECURSIVE insert_objects(_, _, _, _)
insert_objects(cache, found, t, dur) ==
    IF found = {} THEN cache
    ELSE LET id == Min(found)
         IN insert_objects(insert(cache, id, Some(id), t, dur),
                           found \ {id}, t, dur)

\* for entry in results { for entry in entry? { .. } }: the chunks in order,
\* up to the first one that failed
RECURSIVE insert_results(_, _, _, _, _)
insert_results(cache, answers, i, t, dur) ==
    IF i > Len(answers) THEN [ok |-> TRUE, cache |-> cache]
    ELSE IF ~answers[i].ok THEN [ok |-> FALSE, cache |-> cache]
    ELSE insert_results(insert_objects(cache, answers[i].found, t, dur),
                        answers, i + 1, t, dur)

\* the second loop with the tombstone left out
RECURSIVE collect_no_tombstone(_, _, _, _, _)
collect_no_tombstone(cache, rest, result, t, dur) ==
    IF rest = {} THEN [cache |-> cache, result |-> result]
    ELSE LET id == Min(rest)
             entry == get(cache, id, t)
         IN IF entry.some
            THEN collect_no_tombstone(cache, rest \ {id},
                     IF entry.value.some THEN result \cup {entry.value.value}
                     ELSE result, t, dur)
            ELSE collect_no_tombstone(cache, rest \ {id}, result, t, dur)

\* for id in ids: a cached object goes into the result map, a cached
\* tombstone does not, and an id without a visible entry gets a tombstone
RECURSIVE collect(_, _, _, _, _)
collect(cache, rest, result, t, dur) ==
    IF rest = {} THEN [cache |-> cache, result |-> result]
    ELSE LET id == Min(rest)
             entry == get(cache, id, t)
         IN IF entry.some
            THEN collect(cache, rest \ {id},
                     IF entry.value.some THEN result \cup {entry.value.value}
                     ELSE result, t, dur)
            ELSE collect(insert(cache, id, None, t, dur), rest \ {id},
                         result, t, dur)

\* the loop of group_members without its test
RECURSIVE insert_members_always(_, _, _, _)
insert_members_always(cache, found, t, dur) ==
    IF found = {} THEN cache
    ELSE LET id == Min(found)
         IN insert_members_always(insert(cache, id, Some(id), t, dur),
                                  found \ {id}, t, dur)

\* for object in &results { if cache.get(&object.id).is_none() {
\*     cache.insert(object.id.clone(), Some(object.clone())) } }
RECURSIVE insert_members(_, _, _, _)
insert_members(cache, found, t, dur) ==
    IF found = {} THEN cache
    ELSE LET id == Min(found)
         IN insert_members(IF get(cache, id, t).some THEN cache
                           ELSE insert(cache, id, Some(id), t, dur),
                           found \ {id}, t, dur)

Never == [at |-> -1, found |-> FALSE]

DirectoryIdle ==
    /\ object_cache = EmptyMap
    /\ object_ttl = 0
    /\ instant = 0
    /\ gpc = "idle"
    /\ ids = {}
    /\ to_update = {}
    /\ gresult = [tag |-> "none", map |-> {}]
    /\ carried_at = [id \in ObjectIds |-> -1]
    /\ looked_up = [id \in ObjectIds |-> Never]

\* PimClient::new: an empty object cache
DirectoryInit ==
    /\ object_cache = EmptyMap
    /\ object_ttl \in Ttls
    /\ instant = 0
    /\ gpc = "ready"
    /\ ids = {}
    /\ to_update = {}
    /\ gresult = [tag |-> "none", map |-> {}]
    /\ carried_at = [id \in ObjectIds |-> -1]
    /\ looked_up = [id \in ObjectIds |-> Never]

\* get_objects_by_ids up to the await: the call takes the lock of the
\* object cache, which no other call holds, filters the ids and sends the
\* chunks
GetObjectsCall(req) ==
    /\ gpc = "ready"
    /\ gpc' = "inflight"
    /\ ids' = req
    /\ to_update' = not_cached(object_cache, req, instant)
    /\ carried_at' = [id \in ObjectIds |->
                        IF id \in to_update' THEN instant ELSE carried_at[id]]
    /\ gresult' = [tag |-> "none", map |-> {}]
    /\ UNCHANGED <<object_cache, object_ttl, instant, looked_up>>
    /\ UNCHANGED <<clientVars, restVars, adminVars, cacheVars, groupVars, pureVars>>

\* get_objects_by_ids from the await on: the results of the chunks are
\* written to the cache, the result map is built, the lock is released
GetObjectsReturn ==
    /\ gpc = "inflight"
    /\ gpc' = "ready"
    /\ \E answers \in ChunkResults(chunks(SetToSeq(to_update), CHUNK_SIZE)) :
        LET written == insert_results(object_cache, answers, 1, instant, object_ttl)
            collected == collect(written.cache, ids, {}, instant, object_ttl)
            found == UNION {answers[i].found : i \in 1..Len(answers)}
        IN IF written.ok
           THEN /\ object_cache' = collected.cache
                /\ gresult' = [tag |-> "Ok", map |-> collected.result]
                /\ looked_up' = [id \in ObjectIds |->
                                    IF id \in to_update
                                    THEN [at |-> instant, found |-> id \in found]
                                    ELSE looked_up[id]]
           ELSE /\ object_cache' = written.cache
                /\ gresult' = [tag |-> "Err", map |-> {}]
                /\ UNCHANGED looked_up
    /\ UNCHANGED <<object_ttl, instant, ids, to_update, carried_at>>
    /\ UNCHANGED <<clientVars, restVars, adminVars, cacheVars, groupVars, pureVars>>

\* time passes, also while a call awaits the directory
DirectoryTick ==
    /\ gpc # "idle"
    /\ instant < MaxClock
    /\ instant' = instant + 1
    /\ UNCHANGED <<object_cache, object_ttl, gpc, ids, to_update, gresult,
                   carried_at, looked_up>>
    /\ UNCHANGED <<clientVars, restVars, adminVars, cacheVars, groupVars, pureVars>>

(***************************************************************************)
(* PimClient::group_members.                                               *)
(***************************************************************************)
\* the principals of the directory: groups and others
GroupIds == {1, 2}

UserIds == {3}

Principals == GroupIds \cup UserIds

\* the members that are groups: filter(|x| matches!(x.object_type, Group))
groups_of(set) == set \cap GroupIds

\* the check of the done set forgotten
done_contains_never(d, id) == FALSE

\* done.contains(&id)
done_contains(d, id) == id \in d

\* the nested groups never put on the worklist
extend_todo_nothing(t, group_results) == t

\* todo.extend(the groups among group_results)
extend_todo(t, group_results) == t \cup groups_of(group_results)

\* a history counter, capped
Bump(n) == IF n < 2 THEN n + 1 ELSE n

GroupIdle ==
    /\ members = [g \in GroupIds |-> {}]
    /\ root = 0
    /\ nested = FALSE
    /\ todo = {}
    /\ done = {}
    /\ results = {}
    /\ epc = "idle"
    /\ eresult = "none"
    /\ fetches = [g \in GroupIds |-> 0]

\* a call of group_members for a group of some directory
GroupInit ==
    /\ members \in [GroupIds -> SUBSET Principals]
    /\ root \in GroupIds
    /\ nested \in BOOLEAN
    /\ todo = {}
    /\ done = {}
    /\ results = {}
    /\ epc = "call"
    /\ eresult = "none"
    /\ fetches = [g \in GroupIds |-> 0]

\* if !nested { return group_members(self, id).await }
DirectMembers ==
    /\ epc = "call"
    /\ ~nested
    /\ epc' = "returned"
    /\ fetches' = [fetches EXCEPT ![root] = Bump(@)]
    /\ \/ eresult' = "Ok" /\ results' = members[root]
       \/ eresult' = "Err" /\ UNCHANGED results
    /\ UNCHANGED <<members, root, nested, todo, done>>
    /\ UNCHANGED <<clientVars, restVars, adminVars, cacheVars, directoryVars, pureVars>>

\* the worklist starts with the id the call was given
ExpandStart ==
    /\ epc = "call"
    /\ nested
    /\ epc' = "loop"
    /\ todo' = {root}
    /\ UNCHANGED <<members, root, nested, done, results, eresult, fetches>>
    /\ UNCHANGED <<clientVars, restVars, adminVars, cacheVars, directoryVars, pureVars>>

\* an iteration that pops an id that is already done
ExpandSkip ==
    /\ epc = "loop"
    /\ todo # {}
    /\ done_contains(done, Min(todo))
    /\ todo' = todo \ {Min(todo)}
    /\ UNCHANGED <<members, root, nested, done, results, epc, eresult, fetches>>
    /\ UNCHANGED <<clientVars, restVars, adminVars, cacheVars, directoryVars, pureVars>>

\* an iteration that pops an id, fetches its direct members, puts the
\* groups among them on the worklist and all of them into the results
ExpandFetch ==
    /\ epc = "loop"
    /\ todo # {}
    /\ ~done_contains(done, Min(todo))
    /\ LET id == Min(todo)
       IN /\ done' = done \cup {id}
          /\ fetches' = [fetches EXCEPT ![id] = Bump(@)]
          /\ todo' = extend_todo(todo \ {id}, members[id])
          /\ results' = results \cup members[id]
    /\ UNCHANGED <<members, root, nested, epc, eresult>>
    /\ UNCHANGED <<clientVars, restVars, adminVars, cacheVars, directoryVars, pureVars>>

\* an iteration whose fetch fails: group_members(self, &id).await?
ExpandFetchErr ==
    /\ epc = "loop"
    /\ todo # {}
    /\ ~done_contains(done, Min(todo))
    /\ done' = done \cup {Min(todo)}
    /\ fetches' = [fetches EXCEPT ![Min(todo)] = Bump(@)]
    /\ todo' = todo \ {Min(todo)}
    /\ epc' = "returned"
    /\ eresult' = "Err"
    /\ UNCHANGED <<members, root, nested, results>>
    /\ UNCHANGED <<clientVars, restVars, adminVars, cacheVars, directoryVars, pureVars>>

\* the worklist is empty: Ok(results)
ExpandReturn ==
    /\ epc = "loop"
    /\ todo = {}
    /\ epc' = "returned"
    /\ eresult' = "Ok"
    /\ UNCHANGED <<members, root, nested, todo, done, results, fetches>>
    /\ UNCHANGED <<clientVars, restVars, adminVars, cacheVars, directoryVars, pureVars>>

(***************************************************************************)
(* models/scope.rs Scope.  A scope is its path, a sequence of characters.  *)
(* The path words "subscriptions" and "resourceGroups" are written as the  *)
(* letters s and g.                                                        *)
(***************************************************************************)
Alphabet == {"/", "s", "g"}

\* the strings of at most n characters
Strings(n) == UNION {[1..k -> Alphabet] : k \in 0..n}

\* Scope::new: the strings that start with a '/'
Scopes(n) == {s \in Strings(n) : Len(s) > 0 /\ s[1] = "/"}

\* "/subscriptions/"
SUBSCRIPTIONS == <<"/", "s", "/">>

\* "/resourceGroups/"
RESOURCE_GROUPS == <<"/", "g", "/">>

\* str::starts_with
starts_with(s, prefix) ==
    Len(prefix) <= Len(s) /\ SubSeq(s, 1, Len(prefix)) = prefix

\* str::contains
str_contains(s, pattern) ==
    \E i \in 1..(Len(s) - Len(pattern) + 1) :
        SubSeq(s, i, i + Len(pattern) - 1) = pattern

\* str::split('/'): the pieces between the separators; n separators give
\* n + 1 pieces, empty ones included
RECURSIVE split(_)
split(s) ==
    IF \A i \in 1..Len(s) : s[i] # "/" THEN <<s>>
    ELSE LET i == Min({j \in 1..Len(s) : s[j] = "/"})
         IN <<SubSeq(s, 1, i - 1)>> \o split(SubSeq(s, i + 1, Len(s)))

\* slice::get(0..n): the first n elements, None when there are fewer
get_range(seq, n) ==
    IF n <= Len(seq) THEN Some(SubSeq(seq, 1, n)) ELSE None

\* containment as a prefix of the path string
contains_string_prefix(a, b) == starts_with(b, a)

\* Scope::contains
contains(a, b) ==
    LET first == split(a)
        second == split(b)
        left == Some(first)
        right == get_range(second, Len(first))
    IN left = right

\* Scope::is_subscription
is_subscription(a) ==
    starts_with(a, SUBSCRIPTIONS) /\ ~str_contains(a, RESOURCE_GROUPS)

\* "/providers/", written with the letter p
PROVIDERS == <<"/", "p", "/">>

\* Result<Scope, ScopeError>
ScopeOk(path) == [ok |-> TRUE, scope |-> path]

LeadingSlash == [ok |-> FALSE, scope |-> <<>>]

\* Scope::new
new(value) ==
    IF ~starts_with(value, <<"/">>) THEN LeadingSlash ELSE ScopeOk(value)

\* FromStr for Scope
from_str(s) == new(s)

\* Scope::from_subscription
from_subscription(subscription_id) == SUBSCRIPTIONS \o subscription_id

\* Scope::from_resource_group
from_resource_group(subscription_id, resource_group) ==
    SUBSCRIPTIONS \o subscription_id \o RESOURCE_GROUPS \o resource_group

\* Scope::from_provider
from_provider(subscription_id, resource_group, provider) ==
    SUBSCRIPTIONS \o subscription_id \o RESOURCE_GROUPS \o resource_group
        \o PROVIDERS \o provider

\* the derived Deserialize of the tuple struct Scope(String): the string
\* of the JSON value becomes the field
deserialize(value) == ScopeOk(value)

\* a Uuid prints without a '/'
Uuids == {<<"s">>, <<"g">>}

\* the names of resource groups and providers a caller passes
Names == {<<>>, <<"g">>, <<"/", "s">>}

Constructors == {"from_subscription", "from_resource_group", "from_provider"}

ScopeIdle ==
    /\ scope_fn = "idle"
    /\ scope_self = <<>>
    /\ scope_other = <<>>
    /\ scope_ret = None

\* a call of contains on two scopes, or of is_subscription on a scope (the
\* latter also on "/subscriptions/" followed by any string), or the
\* building of a scope from a string or from the parts of a path
ScopeInit ==
    /\ scope_ret = None
    /\ \/ /\ scope_fn = "contains"
          /\ scope_self \in Scopes(MaxScopeLen)
          /\ scope_other \in Scopes(MaxScopeLen)
       \/ /\ scope_fn = "is_subscription"
          /\ scope_self \in Scopes(MaxScopeLen)
                 \cup {SUBSCRIPTIONS \o t : t \in Strings(MaxScopeLen + 2)}
          /\ scope_other = <<>>
       \/ /\ scope_fn \in {"new", "from_str", "deserialize"}
          /\ scope_self = <<>>
          /\ scope_other \in Strings(MaxScopeLen)
       \/ /\ scope_fn \in Constructors
          /\ scope_self = <<>>
          /\ scope_other \in Uuids \X Names \X Names

\* self.contains(&other)
ScopeContains ==
    /\ scope_fn = "contains"
    /\ scope_ret = None
    /\ scope_ret' = Some(contains(scope_self, scope_other))
    /\ UNCHANGED <<scope_fn, scope_self, scope_other>>
    /\ UNCHANGED <<clientVars, restVars, adminVars, cacheVars, directoryVars, groupVars,
                   dumpVars, formatVars>>

\* self.is_subscription()
ScopeIsSubscription ==
    /\ scope_fn = "is_subscription"
    /\ scope_ret = None
    /\ scope_ret' = Some(is_subscription(scope_self))
    /\ UNCHANGED <<scope_fn, scope_self, scope_other>>
    /\ UNCHANGED <<clientVars, restVars, adminVars, cacheVars, directoryVars, groupVars,
                   dumpVars, formatVars>>

\* Scope::new(value)
ScopeNew ==
    /\ scope_fn = "new"
    /\ scope_ret = None
    /\ scope_ret' = Some(new(scope_other))
    /\ UNCHANGED <<scope_fn, scope_self, scope_other>>
    /\ UNCHANGED <<clientVars, restVars, adminVars, cacheVars, directoryVars, groupVars,
                   dumpVars, formatVars>>

\* value.parse::<Scope>()
ScopeFromStr ==
    /\ scope_fn = "from_str"
    /\ scope_ret = None
    /\ scope_ret' = Some(from_str(scope_other))
    /\ UNCHANGED <<scope_fn, scope_self, scope_other>>
    /\ UNCHANGED <<clientVars, restVars, adminVars, cacheVars, directoryVars, groupVars,
                   dumpVars, formatVars>>

\* Scope::from_subscription, from_resource_group, from_provider
ScopeFromParts ==
    /\ scope_fn \in Constructors
    /\ scope_ret = None
    /\ scope_ret' = Some(ScopeOk(
           CASE scope_fn = "from_subscription" ->
                    from_subscription(scope_other[1])
             [] scope_fn = "from_resource_group" ->
                    from_resource_group(scope_other[1], scope_other[2])
             [] OTHER ->
                    from_provider(scope_other[1], scope_other[2],
                                  scope_other[3])))
    /\ UNCHANGED <<scope_fn, scope_self, scope_other>>
    /\ UNCHANGED <<clientVars, restVars, adminVars, cacheVars, directoryVars, groupVars,
                   dumpVars, formatVars>>

\* serde_json::from_value of a value that holds a Scope, as
\* ChildResource::parse does for the id of a child resource
ScopeDeserialize ==
    /\ scope_fn = "deserialize"
    /\ scope_ret = None
    /\ scope_ret' = Some(deserialize(scope_other))
    /\ UNCHANGED <<scope_fn, scope_self, scope_other>>
    /\ UNCHANGED <<clientVars, restVars, adminVars, cacheVars, directoryVars, groupVars,
                   dumpVars, formatVars>>

(***************************************************************************)
(* bin/dump-roles.rs remove_dominated_scopes.                              *)
(***************************************************************************)
\* the characters of the paths and ids below, in the order of their bytes
CharOrder == <<"/", "0", "1", "2", "g", "p", "q", "r", "s">>

CharRank(c) == CHOOSE i \in 1..Len(CharOrder) : CharOrder[i] = c

\* Ord for str: the first differing character decides, a prefix is less
str_less(a, b) ==
    LET n == Min({Len(a), Len(b)})
        diff == {i \in 1..n : a[i] # b[i]}
    IN IF diff = {} THEN Len(a) < Len(b)
       ELSE CharRank(a[Min(diff)]) < CharRank(b[Min(diff)])

\* Scope::from_subscription
SubscriptionScope == SUBSCRIPTIONS \o <<"0">>

\* Scope::from_resource_group
ResourceGroupScope == SubscriptionScope \o RESOURCE_GROUPS \o <<"r">>

\* Scope::from_provider
ProviderScope == ResourceGroupScope \o <<"/", "p", "/", "q">>

\* a provider resource of the subscription, outside every resource group
SubscriptionProviderScope == SubscriptionScope \o <<"/", "p", "/", "q">>

EntryScopes == {SubscriptionScope, ResourceGroupScope, ProviderScope,
                SubscriptionProviderScope}

\* the roles, in the order of their names
Roles == <<"Contributor", "Owner">>

RoleRank(r) == CHOOSE i \in 1..Len(Roles) : Roles[i] = r

\* Entry: the fields that tell the entries of the model apart
Entry == [role : Range(Roles), scope : EntryScopes, id : {<<"1">>, <<"2">>}]

\* the derived Ord of Entry: by role, then scope, then id
entry_less(x, y) ==
    IF x.role # y.role THEN RoleRank(x.role) < RoleRank(y.role)
    ELSE IF x.scope # y.scope THEN str_less(x.scope, y.scope)
    ELSE str_less(x.id, y.id)

\* BTreeSet::first
first_entry(set) == CHOOSE x \in set : \A y \in set \ {x} : entry_less(x, y)

\* Entry::is_dominated
is_dominated(self, other) ==
    /\ self.id = other.id
    /\ self.role = other.role
    /\ contains(other.scope, self.scope)

\* the second loop: an entry of rest is kept unless an entry kept so far
\* dominates it
RECURSIVE keep_undominated(_, _)
keep_undominated(kept, rest) ==
    IF rest = {} THEN kept
    ELSE LET entry == first_entry(rest)
         IN IF \E x \in kept : is_dominated(entry, x)
            THEN keep_undominated(kept, rest \ {entry})
            ELSE keep_undominated(kept \cup {entry}, rest \ {entry})

\* remove_dominated_scopes
remove_dominated_scopes(set) ==
    keep_undominated({e \in set : is_subscription(e.scope)},
                     {e \in set : ~is_subscription(e.scope)})

DumpIdle ==
    /\ dump_data = {}
    /\ dump_ret = Some({})

\* a call of remove_dominated_scopes on a set of entries
DumpInit ==
    /\ dump_data \in {set \in SUBSET Entry : Cardinality(set) <= MaxEntries}
    /\ dump_ret = None

RemoveDominatedScopes ==
    /\ dump_ret = None
    /\ dump_ret' = Some(remove_dominated_scopes(dump_data))
    /\ UNCHANGED dump_data
    /\ UNCHANGED <<clientVars, restVars, adminVars, cacheVars, directoryVars, groupVars,
                   scopeVars, formatVars>>

(***************************************************************************)
(* format_duration as a function of its own.                               *)
(***************************************************************************)
\* the durations it is called with, in whole seconds
FormatInputs == {0, 1, 59, 60, 61, 3599, 3600, 3601, 3660, 3661, 36000,
                 86400, 86401, 86460, 86520, 90061}

FormatIdle ==
    /\ as_secs = -1
    /\ format_ret = None

FormatInit ==
    /\ as_secs \in FormatInputs
    /\ format_ret = None

FormatDuration ==
    /\ as_secs >= 0
    /\ format_ret = None
    /\ format_ret' = Some(format_duration(as_secs))
    /\ UNCHANGED as_secs
    /\ UNCHANGED <<clientVars, restVars, adminVars, cacheVars, directoryVars, groupVars,
                   scopeVars, dumpVars>>

(***************************************************************************)
(* The orphan reconciler: delete_orphaned_role_assignments ("plain") and   *)
(* delete_orphaned_eligible_role_assignments ("eligible") over the entries *)
(* of one scope.  An entry records whether it has a principal id and       *)
(* whether the directory resolved it to an object.                         *)
(***************************************************************************)
Whitespace == {" ", "\n"}

\* the lines stdin may hold; the empty line is end of input
Lines == {<<"y", "\n">>, <<"Y", "\n">>, <<" ", "y", " ", "\n">>,
          <<"n", "\n">>, <<"N", "\n">>, <<"y", "e", "s", "\n">>,
          <<"\n">>, <<>>}

\* stdin().read_line: an error, or a line
Reads == {None} \cup {Some(l) : l \in Lines}

RECURSIVE trim_start(_)
trim_start(s) ==
    IF s # <<>> /\ Head(s) \in Whitespace THEN trim_start(Tail(s)) ELSE s

RECURSIVE trim_end(_)
trim_end(s) ==
    IF s # <<>> /\ s[Len(s)] \in Whitespace
    THEN trim_end(SubSeq(s, 1, Len(s) - 1))
    ELSE s

trim(s) == trim_end(trim_start(s))

to_lowercase(s) ==
    [i \in 1..Len(s) |->
        CASE s[i] = "Y" -> "y"
          [] s[i] = "N" -> "n"
          [] OTHER -> s[i]]

\* one turn of the loop of confirm: Some of the answer, or None to ask again
confirm(read) ==
    IF ~read.some
    THEN None
    ELSE LET answer == to_lowercase(trim(read.value))
         IN  CASE answer = <<"y">> -> Some(TRUE)
               [] answer = <<"n">> -> Some(FALSE)
               [] OTHER -> None

OrphanEntry(principal_id, object) ==
    [principal_id |-> principal_id, object |-> object]

\* role_assignments sets object for the principal id every entry has;
\* list_eligible_role_assignments sets it when the entry has a principal id
Listed(fn) ==
    IF fn = "plain"
    THEN {OrphanEntry(TRUE, o) : o \in BOOLEAN}
    ELSE {OrphanEntry(TRUE, TRUE), OrphanEntry(TRUE, FALSE),
          OrphanEntry(FALSE, FALSE)}

Listings(fn) == UNION {[1..n -> Listed(fn)] : n \in 0..MaxListing}

RECURSIVE Positions(_, _)
Positions(from, to) ==
    IF from > to THEN <<>> ELSE <<from>> \o Positions(from + 1, to)

retain_all(entries) == Positions(1, Len(entries))

\* objects.retain(|x| x.object.is_none()), as the positions kept
retain_orphaned(entries) ==
    SelectSeq(Positions(1, Len(entries)), LAMBDA i : ~entries[i].object)

request_type(fn) == IF fn = "plain" THEN "DELETE" ELSE "AdminRemove"

OrphanIdle ==
    /\ orphan_fn = "idle"
    /\ answer_yes = FALSE
    /\ listed = <<>>
    /\ opc = "idle"
    /\ remaining = <<>>
    /\ answered = <<>>
    /\ deletes = {}
    /\ oresult = None

OrphanInit ==
    /\ orphan_fn \in {"plain", "eligible"}
    /\ answer_yes \in BOOLEAN
    /\ listed \in Listings(orphan_fn)
    /\ opc = "call"
    /\ remaining = <<>>
    /\ answered = [i \in 1..Len(listed) |-> None]
    /\ deletes = {}
    /\ oresult = None

\* role_definitions and the listing succeed
OrphanList ==
    /\ opc = "call"
    /\ opc' = "loop"
    /\ remaining' = IF orphan_fn = "plain"
                    THEN retain_orphaned(listed)
                    ELSE Positions(1, Len(listed))
    /\ UNCHANGED <<orphan_fn, answer_yes, listed, answered, deletes, oresult>>
    /\ UNCHANGED <<clientVars, restVars, cacheVars, directoryVars, groupVars, pureVars,
                   cachesVars, tokenVars, orderVars,
                   callVars>>

\* role_definitions or the listing fails
OrphanListErr ==
    /\ opc = "call"
    /\ opc' = "done"
    /\ oresult' = Some("Err")
    /\ UNCHANGED <<orphan_fn, answer_yes, listed, remaining, answered,
                   deletes>>
    /\ UNCHANGED <<clientVars, restVars, cacheVars, directoryVars, groupVars, pureVars,
                   cachesVars, tokenVars, orderVars,
                   callVars>>

\* the head of the loop body, up to the call of confirm
OrphanNext ==
    /\ opc = "loop"
    /\ remaining # <<>>
    /\ LET entry == listed[Head(remaining)]
       IN  IF orphan_fn = "eligible" /\ entry.object
           THEN /\ remaining' = Tail(remaining)
                /\ UNCHANGED opc
           ELSE /\ opc' = IF answer_yes THEN "delete" ELSE "prompt"
                /\ UNCHANGED remaining
    /\ UNCHANGED <<orphan_fn, answer_yes, listed, answered, deletes, oresult>>
    /\ UNCHANGED <<clientVars, restVars, cacheVars, directoryVars, groupVars, pureVars,
                   cachesVars, tokenVars, orderVars,
                   callVars>>

\* confirm reads a line
OrphanConfirm(read) ==
    /\ opc = "prompt"
    /\ LET answer == confirm(read)
           at == Head(remaining)
       IN  /\ answered' = [answered EXCEPT ![at] = Some(answer)]
           /\ IF ~answer.some
              THEN UNCHANGED <<opc, remaining>>
              ELSE IF answer.value
                   THEN opc' = "delete" /\ UNCHANGED remaining
                   ELSE opc' = "loop" /\ remaining' = Tail(remaining)
    /\ UNCHANGED <<orphan_fn, answer_yes, listed, deletes, oresult>>
    /\ UNCHANGED <<clientVars, restVars, cacheVars, directoryVars, groupVars, pureVars,
                   cachesVars, tokenVars, orderVars,
                   callVars>>

\* delete_role_assignment or delete_eligible_role_assignment returns Ok
OrphanDelete ==
    /\ opc = "delete"
    /\ LET at == Head(remaining)
       IN  /\ orphan_fn = "eligible" => listed[at].principal_id
           /\ deletes' = deletes \cup
                  {[at |-> at, request |-> request_type(orphan_fn)]}
    /\ opc' = "loop"
    /\ remaining' = Tail(remaining)
    /\ UNCHANGED <<orphan_fn, answer_yes, listed, answered, oresult>>
    /\ UNCHANGED <<clientVars, restVars, cacheVars, directoryVars, groupVars, pureVars,
                   cachesVars, tokenVars, orderVars,
                   callVars>>

\* it returns Err: the principal id is missing and no request is sent, or
\* the request is sent and fails
OrphanDeleteErr ==
    /\ opc = "delete"
    /\ LET at == Head(remaining)
       IN  deletes' =
               IF orphan_fn = "eligible" /\ ~listed[at].principal_id
               THEN deletes
               ELSE deletes \cup
                        {[at |-> at, request |-> request_type(orphan_fn)]}
    /\ opc' = "done"
    /\ oresult' = Some("Err")
    /\ UNCHANGED <<orphan_fn, answer_yes, listed, remaining, answered>>
    /\ UNCHANGED <<clientVars, restVars, cacheVars, directoryVars, groupVars, pureVars,
                   cachesVars, tokenVars, orderVars,
                   callVars>>

OrphanReturn ==
    /\ opc = "loop"
    /\ remaining = <<>>
    /\ opc' = "done"
    /\ oresult' = Some("Ok")
    /\ UNCHANGED <<orphan_fn, answer_yes, listed, remaining, answered,
                   deletes>>
    /\ UNCHANGED <<clientVars, restVars, cacheVars, directoryVars, groupVars, pureVars,
                   cachesVars, tokenVars, orderVars,
                   callVars>>

(***************************************************************************)
(* The caches of a PimClient: get_objects_by_ids, role_definitions and     *)
(* clear_cache called by tasks of one client, at one instant.              *)
(***************************************************************************)
\* the instant of the calls
Epoch == 0

DefinitionScopes == {"/s"}

\* ExpiringMap::clear: no entry is left
clear(d) == EmptyMap

\* clear_cache that forgets the role definitions
clear_cache_objects_only(caches) ==
    [caches EXCEPT !.object_cache = clear(@)]

\* clear_cache that clears every cache of the client
clear_cache_every_cache(caches) ==
    [field \in DOMAIN caches |-> clear(caches[field])]

\* PimClient::clear_cache: what it leaves of the caches of the client; it
\* locks and clears the object cache and the role definitions cache
clear_cache(caches) ==
    [caches EXCEPT !.object_cache = clear(@),
                   !.role_definitions_cache = clear(@)]

Caches ==
    [object_cache |-> pim_objects, role_definitions_cache |-> pim_definitions]

\* the keys a map serves at the instant t
Visible(d, t) == {k \in DOMAIN d : contains_key(d, k, t)}

CachesIdle ==
    /\ pim_objects = EmptyMap
    /\ pim_definitions = EmptyMap
    /\ objects_held = FALSE
    /\ definitions_held = FALSE
    /\ wanted = {}
    /\ sent = {}
    /\ definitions_from = "none"
    /\ clear_pc = "idle"
    /\ marked_objects = {}
    /\ marked_definitions = {}

\* PimClient::new: empty caches
CachesInit ==
    /\ pim_objects = EmptyMap
    /\ pim_definitions = EmptyMap
    /\ objects_held = FALSE
    /\ definitions_held = FALSE
    /\ wanted = {}
    /\ sent = {}
    /\ definitions_from = "none"
    /\ clear_pc = "ready"
    /\ marked_objects = {}
    /\ marked_definitions = {}

\* get_objects_by_ids up to the await
LookupCall(req) ==
    /\ clear_pc # "idle"
    /\ ~objects_held
    /\ objects_held' = TRUE
    /\ wanted' = req
    /\ sent' = not_cached(pim_objects, req, Epoch)
    /\ UNCHANGED <<pim_objects, pim_definitions, definitions_held,
                   definitions_from, clear_pc, marked_objects,
                   marked_definitions>>
    /\ UNCHANGED <<clientVars, restVars, cacheVars, directoryVars, groupVars, pureVars,
                   orphanVars, tokenVars, orderVars,
                   callVars>>

\* get_objects_by_ids from the await on
LookupReturn ==
    /\ objects_held
    /\ objects_held' = FALSE
    /\ \E answers \in ChunkResults(chunks(SetToSeq(sent), CHUNK_SIZE)) :
        LET written == insert_results(pim_objects, answers, 1, Epoch, CACHE_TTL)
            collected == collect(written.cache, wanted, {}, Epoch, CACHE_TTL)
        IN IF written.ok
           THEN /\ pim_objects' = collected.cache
                /\ marked_objects' = marked_objects \ sent
           ELSE /\ pim_objects' = written.cache
                /\ UNCHANGED marked_objects
    /\ wanted' = {}
    /\ sent' = {}
    /\ UNCHANGED <<pim_definitions, definitions_held, definitions_from,
                   clear_pc, marked_definitions>>
    /\ UNCHANGED <<clientVars, restVars, cacheVars, directoryVars, groupVars, pureVars,
                   orphanVars, tokenVars, orderVars,
                   callVars>>

\* role_definitions up to the return of the cached value, or to the await
RoleDefinitionsCall(scope) ==
    /\ clear_pc # "idle"
    /\ ~definitions_held
    /\ IF get(pim_definitions, scope, Epoch).some
       THEN /\ definitions_from' = "cache"
            /\ UNCHANGED definitions_held
       ELSE /\ definitions_from' = "provider"
            /\ definitions_held' = TRUE
    /\ UNCHANGED <<pim_objects, pim_definitions, objects_held, wanted, sent,
                   clear_pc, marked_objects, marked_definitions>>
    /\ UNCHANGED <<clientVars, restVars, cacheVars, directoryVars, groupVars, pureVars,
                   orphanVars, tokenVars, orderVars,
                   callVars>>

\* role_definitions from the await on: the request failed, or its
\* definitions are cached
RoleDefinitionsReturn(scope) ==
    /\ definitions_held
    /\ definitions_held' = FALSE
    /\ \/ UNCHANGED <<pim_definitions, marked_definitions>>
       \/ /\ pim_definitions' =
                 insert(pim_definitions, scope, "definitions", Epoch, CACHE_TTL)
          /\ marked_definitions' = marked_definitions \ {scope}
    /\ UNCHANGED <<pim_objects, objects_held, wanted, sent, definitions_from,
                   clear_pc, marked_objects>>
    /\ UNCHANGED <<clientVars, restVars, cacheVars, directoryVars, groupVars, pureVars,
                   orphanVars, tokenVars, orderVars,
                   callVars>>

\* clear_cache is called
ClearCacheCall ==
    /\ clear_pc = "ready"
    /\ clear_pc' = "called"
    /\ marked_objects' = Visible(pim_objects, Epoch)
    /\ marked_definitions' = Visible(pim_definitions, Epoch)
    /\ UNCHANGED <<pim_objects, pim_definitions, objects_held,
                   definitions_held, wanted, sent, definitions_from>>
    /\ UNCHANGED <<clientVars, restVars, cacheVars, directoryVars, groupVars, pureVars,
                   orphanVars, tokenVars, orderVars,
                   callVars>>

\* self.object_cache.lock().await.clear()
ClearCacheObjects ==
    /\ clear_pc = "called"
    /\ ~objects_held
    /\ clear_pc' = "objects"
    /\ pim_objects' = clear_cache(Caches).object_cache
    /\ UNCHANGED <<pim_definitions, objects_held, definitions_held, wanted,
                   sent, definitions_from, marked_objects, marked_definitions>>
    /\ UNCHANGED <<clientVars, restVars, cacheVars, directoryVars, groupVars, pureVars,
                   orphanVars, tokenVars, orderVars,
                   callVars>>

\* self.role_definitions_cache.lock().await.clear(), and the return
ClearCacheDefinitions ==
    /\ clear_pc = "objects"
    /\ ~definitions_held
    /\ clear_pc' = "returned"
    /\ pim_definitions' = clear_cache(Caches).role_definitions_cache
    /\ UNCHANGED <<pim_objects, objects_held, definitions_held, wanted, sent,
                   definitions_from, marked_objects, marked_definitions>>
    /\ UNCHANGED <<clientVars, restVars, cacheVars, directoryVars, groupVars, pureVars,
                   orphanVars, tokenVars, orderVars,
                   callVars>>

(***************************************************************************)
(* Backend::get_token called by the tasks of one process.                  *)
(***************************************************************************)
TokenScopes == {"Management", "Graph"}

TokenTasks == {1, 2, 3}

\* the lookup that never finds a token
lookup_token_miss(map, scope) == None

\* tokens.get(&scope)
lookup_token(map, scope) ==
    IF scope \in DOMAIN map THEN Some(map[scope]) ELSE None

\* tokens.insert(scope, token.clone())
insert_token(map, scope, token) ==
    [k \in DOMAIN map \cup {scope} |-> IF k = scope THEN token ELSE map[k]]

\* the token the provider hands out at its n-th invocation for a scope
Token(scope, n) == [scope |-> scope, serial |-> n]

TokenCall(pc, scope, invoked, ret) ==
    [pc |-> pc, scope |-> scope, invoked |-> invoked, ret |-> ret]

TokenIdle ==
    /\ tokens = EmptyMap
    /\ token_lock = 0
    /\ token_task = [t \in TokenTasks |-> TokenCall("idle", "none", FALSE, None)]
    /\ invocations = [scope \in TokenScopes |-> 0]

\* Backend::new: no token
TokenInit ==
    /\ tokens = EmptyMap
    /\ token_lock = 0
    /\ token_task = [t \in TokenTasks |-> TokenCall("ready", "none", FALSE, None)]
    /\ invocations = [scope \in TokenScopes |-> 0]

\* get_token up to the return of the memoized token, or to the call of the
\* provider: the task takes the lock, which no task holds
GetTokenCall(t, scope) ==
    /\ token_task[t].pc = "ready"
    /\ token_lock = 0
    /\ LET token == lookup_token(tokens, scope)
       IN  IF token.some
           THEN /\ token_task' = [token_task EXCEPT ![t] =
                       TokenCall("done", scope, FALSE, Some(token.value))]
                /\ UNCHANGED <<token_lock, invocations>>
           ELSE /\ token_task' = [token_task EXCEPT ![t] =
                       TokenCall("provider", scope, TRUE, None)]
                /\ token_lock' = t
                /\ invocations' = [invocations EXCEPT ![scope] = @ + 1]
    /\ UNCHANGED tokens
    /\ UNCHANGED <<clientVars, restVars, cacheVars, directoryVars, groupVars, pureVars,
                   orphanVars, cachesVars, orderVars,
                   callVars>>

\* the provider returns a token: it is stored and returned
GetTokenOk(t) ==
    /\ token_task[t].pc = "provider"
    /\ LET scope == token_task[t].scope
           token == Token(scope, invocations[scope])
       IN  /\ tokens' = insert_token(tokens, scope, token)
           /\ token_task' = [token_task EXCEPT ![t] =
                  TokenCall("done", scope, TRUE, Some(token))]
    /\ token_lock' = 0
    /\ UNCHANGED invocations
    /\ UNCHANGED <<clientVars, restVars, cacheVars, directoryVars, groupVars, pureVars,
                   orphanVars, cachesVars, orderVars,
                   callVars>>

\* the provider fails: `?` returns the error and nothing is stored
GetTokenErr(t) ==
    /\ token_task[t].pc = "provider"
    /\ token_task' = [token_task EXCEPT ![t] =
           TokenCall("done", token_task[t].scope, TRUE, None)]
    /\ token_lock' = 0
    /\ UNCHANGED <<tokens, invocations>>
    /\ UNCHANGED <<clientVars, restVars, cacheVars, directoryVars, groupVars, pureVars,
                   orphanVars, cachesVars, orderVars,
                   callVars>>

(***************************************************************************)
(* models/roles.rs RoleAssignment: its derived order and equality, and the *)
(* sets built on them.  A field holds a number, an optional field None or  *)
(* Some of a number.                                                       *)
(***************************************************************************)
\* the fields of RoleAssignment, in the order of their declaration
Fields == <<"role", "scope", "scope_name", "role_definition_id",
            "principal_id", "principal_type", "object">>

\* the role assignments compared: they differ in role, scope, scope name
\* and in what a listing with or without principals fills in
RoleAssignments ==
    [role : {1, 2}, scope : {1, 2}, scope_name : {1, 2},
     role_definition_id : {1},
     principal_id : {None, Some(1)},
     principal_type : {None},
     object : {None}]
    \cup
    [role : {1}, scope : {1}, scope_name : {1},
     role_definition_id : {1},
     principal_id : {Some(1)},
     principal_type : {None, Some(1)},
     object : {None, Some(1)}]

\* Ord of a number, and of an Option: None is less than every Some
cmp_value(x, y) ==
    IF x < y THEN "Less" ELSE IF x > y THEN "Greater" ELSE "Equal"

cmp_field(x, y) ==
    IF ~x.some /\ ~y.some THEN "Equal"
    ELSE IF ~x.some THEN "Less"
    ELSE IF ~y.some THEN "Greater"
    ELSE cmp_value(x.value, y.value)

\* the value of a field as an Option
Field(a, f) ==
    IF f \in {"role", "scope", "scope_name", "role_definition_id"}
    THEN Some(a[f])
    ELSE a[f]

\* #[derive(PartialOrd, Ord)]: the fields are compared in the order of
\* their declaration, the first that differs decides
RECURSIVE cmp_from(_, _, _)
cmp_from(a, b, i) ==
    IF i > Len(Fields) THEN "Equal"
    ELSE LET c == cmp_field(Field(a, Fields[i]), Field(b, Fields[i]))
         IN IF c # "Equal" THEN c ELSE cmp_from(a, b, i + 1)

cmp(a, b) == cmp_from(a, b, 1)

\* #[derive(PartialEq, Eq)]: every field is equal
eq(a, b) == \A i \in 1..Len(Fields) : Field(a, Fields[i]) = Field(b, Fields[i])

\* BTreeSet::insert: the value is added unless the set holds an equal one
btree_insert(set, x) ==
    IF \E y \in set : cmp(x, y) = "Equal" THEN set ELSE set \cup {x}

\* BTreeSet::contains
btree_contains(set, x) == \E y \in set : cmp(x, y) = "Equal"

OrderIdle ==
    /\ ra_fn = "idle"
    /\ ra_entry = None
    /\ ra_active = None
    /\ ra_ret = None

OrderInit ==
    /\ ra_fn \in {"cmp", "wait"}
    /\ ra_entry \in {Some(a) : a \in RoleAssignments}
    /\ ra_active \in {Some(a) : a \in RoleAssignments}
    /\ ra_ret = None

\* the two are compared, tested for equality and inserted into one set
RoleAssignmentCmp ==
    /\ ra_fn = "cmp"
    /\ ra_ret = None
    /\ ra_ret' = Some([ordering |-> cmp(ra_entry.value, ra_active.value),
                       equal |-> eq(ra_entry.value, ra_active.value),
                       set |-> btree_insert(btree_insert({}, ra_entry.value),
                                            ra_active.value)])
    /\ UNCHANGED <<ra_fn, ra_entry, ra_active>>
    /\ UNCHANGED <<clientVars, restVars, cacheVars, directoryVars, groupVars, pureVars,
                   orphanVars, cachesVars, tokenVars,
                   callVars>>

\* one turn of the loop of wait_for_role_activation with the one waited
\* for and the other listed as active:
\* waiting.retain(|entry| !active.contains(entry))
RoleAssignmentWait ==
    /\ ra_fn = "wait"
    /\ ra_ret = None
    /\ ra_ret' = Some([ordering |-> cmp(ra_entry.value, ra_active.value),
                       equal |-> eq(ra_entry.value, ra_active.value),
                       set |-> {entry \in btree_insert({}, ra_entry.value) :
                                  ~btree_contains(
                                      btree_insert({}, ra_active.value), entry)}])
    /\ UNCHANGED <<ra_fn, ra_entry, ra_active>>
    /\ UNCHANGED <<clientVars, restVars, cacheVars, directoryVars, groupVars, pureVars,
                   orphanVars, cachesVars, tokenVars,
                   callVars>>

(***************************************************************************)
(* One call of activate_role_assignment or extend_role_assignment.         *)
(***************************************************************************)
CallIdle ==
    /\ call_fn = "idle"
    /\ call_secs = 0
    /\ call_token = FALSE
    /\ call_pc = "idle"
    /\ call_used = 0
    /\ call_puts = 0
    /\ call_ret = None

CallInit ==
    /\ call_fn \in {"activate_role_assignment", "extend_role_assignment"}
    /\ call_secs \in Durations
    /\ call_token \in BOOLEAN
    /\ call_pc = "call"
    /\ call_used = 0
    /\ call_puts = 0
    /\ call_ret = None

\* the request body is built: principal_id().await? and
\* format_duration(duration)? return the error, otherwise the PUT is handed
\* to send
CallBuild ==
    /\ call_pc = "call"
    /\ IF body_ok("activate", call_token, call_secs)
       THEN /\ call_pc' = "sent"
            /\ UNCHANGED call_ret
       ELSE /\ call_pc' = "done"
            /\ call_ret' = Some("Err")
    /\ UNCHANGED <<call_fn, call_secs, call_token, call_used, call_puts>>
    /\ UNCHANGED <<clientVars, restVars, cacheVars, directoryVars, groupVars, pureVars,
                   orphanVars, cachesVars, tokenVars, orderVars>>

\* one attempt of the PUT in its retry loop
CallAttempt ==
    /\ call_pc = "sent"
    /\ call_puts' = call_puts + 1
    /\ \E o \in Outcomes :
         LET next == retry(try_request(o, "check_error_response"), call_used,
                           RETRY_COUNT)
         IN IF next.done
            THEN /\ call_pc' = "done"
                 /\ call_ret' = Some(next.result)
                 /\ UNCHANGED call_used
            ELSE /\ call_used' = next.used
                 /\ UNCHANGED <<call_pc, call_ret>>
    /\ UNCHANGED <<call_fn, call_secs, call_token>>
    /\ UNCHANGED <<clientVars, restVars, cacheVars, directoryVars, groupVars, pureVars,
                   orphanVars, cachesVars, tokenVars, orderVars>>

(***************************************************************************)
(* graph.rs get_objects_by_ids: the chunks sent to the directory.          *)
(***************************************************************************)
\* the numbers of ids a call is given: none, one, and around one and two
\* chunks
IdCounts ==
    {0, 1, CHUNK_SIZE - 1, CHUNK_SIZE, CHUNK_SIZE + 1, 2 * CHUNK_SIZE, MaxIds}

\* the ids a call given 1..n finds cached: none, the first, every second
\* one, all but the last, all
CachedIds(n) ==
    {{}, {1} \cap (1..n), {id \in 1..n : id % 2 = 0}, 1..(n - 1), 1..n}

\* an object cache that holds the given ids, inserted at Epoch
CacheOf(cached) ==
    [id \in cached |-> Value(Some(id), Epoch + CACHE_TTL)]

ChunkIdle ==
    /\ chunk_pc = "idle"
    /\ chunk_ids = {}
    /\ chunk_cache = EmptyMap
    /\ chunk_calls = <<>>

\* a call of get_objects_by_ids with some of its ids cached
ChunkInit ==
    /\ chunk_pc = "call"
    /\ \E n \in IdCounts :
         /\ chunk_ids = 1..n
         /\ \E cached \in CachedIds(n) : chunk_cache = CacheOf(cached)
    /\ chunk_calls = <<>>

\* get_objects_by_ids up to join_all: the ids without a cache entry are
\* cut into chunks, and get_objects_by_ids_small is called for each chunk
SendChunks ==
    /\ chunk_pc = "call"
    /\ chunk_pc' = "sent"
    /\ chunk_calls' = chunks(SetToSeq(not_cached(chunk_cache, chunk_ids, Epoch)),
                             CHUNK_SIZE)
    /\ UNCHANGED <<chunk_ids, chunk_cache>>
    /\ UNCHANGED <<clientVars, cacheVars, directoryVars, groupVars, pureVars,
                   adminVars, rbacVars, locksVars, objVars,
                   childVars, gmVars>>

(***************************************************************************)
(* PimClient::activate_role_admin.  An assignment is its role and scope.   *)
(***************************************************************************)
\* const RBAC_ADMIN_ROLES
RBAC_ADMIN_ROLES == {"Owner", "Role Based Access Control Administrator"}

\* the roles of the listings, in the order of their names
RbacRoles ==
    <<"Owner", "Reader", "Role Based Access Control Administrator">>

\* the scope the call is given, and the scopes of the listings: the first
\* contains the target, the second does not
RbacTarget == <<"/", "s", "/", "g">>

RbacScopes == {<<"/", "s">>, <<"/", "g">>}

RbacEntries == [role : Range(RbacRoles), scope : RbacScopes]

\* the test with the role forgotten
is_rbac_admin_any_role(entry, scope) == contains(entry.scope, scope)

\* entry.scope.contains(scope)
\*     && RBAC_ADMIN_ROLES.contains(&entry.role.0.as_str())
is_rbac_admin(entry, scope) ==
    contains(entry.scope, scope) /\ entry.role \in RBAC_ADMIN_ROLES

\* the derived Ord of RoleAssignment: by role, then by scope
rbac_less(x, y) ==
    LET rank(r) == CHOOSE i \in 1..Len(RbacRoles) : RbacRoles[i] = r
    IN IF x.role # y.role THEN rank(x.role) < rank(y.role)
       ELSE str_less(x.scope, y.scope)

\* for entry in set { if is_rbac_admin(entry) { return .. } }: the first
\* entry of the set, in its order, that passes the test
first_rbac_admin(set, scope) ==
    LET found == {e \in set : is_rbac_admin(e, scope)}
    IN IF found = {} THEN None
       ELSE Some(CHOOSE x \in found : \A y \in found \ {x} : rbac_less(x, y))

RbacIdle ==
    /\ rbac_pc = "idle"
    /\ rbac_active = {}
    /\ rbac_eligible = {}
    /\ rbac_token = FALSE
    /\ rbac_secs = 0
    /\ rbac_calls = <<>>
    /\ rbac_puts = <<>>
    /\ rbac_ret = None

\* a call of activate_role_admin for the target scope, and what the
\* provider lists
RbacInit ==
    /\ rbac_pc = "call"
    /\ rbac_active \in {set \in SUBSET RbacEntries : Cardinality(set) <= 1}
    /\ rbac_eligible \in {set \in SUBSET RbacEntries : Cardinality(set) <= 2}
    /\ \E p \in {<<TRUE, 1>>, <<TRUE, 0>>, <<FALSE, 1>>} :
         rbac_token = p[1] /\ rbac_secs = p[2]
    /\ rbac_calls = <<>>
    /\ rbac_puts = <<>>
    /\ rbac_ret = None

\* the active assignments are listed: Ok when one of them administrates
\* the scope
RbacListActive ==
    /\ rbac_pc = "call"
    /\ IF first_rbac_admin(rbac_active, RbacTarget).some
       THEN /\ rbac_pc' = "done"
            /\ rbac_ret' = Some("Ok")
       ELSE /\ rbac_pc' = "eligible"
            /\ UNCHANGED rbac_ret
    /\ UNCHANGED <<rbac_active, rbac_eligible, rbac_token, rbac_secs,
                   rbac_calls, rbac_puts>>
    /\ UNCHANGED <<clientVars, cacheVars, directoryVars, groupVars, pureVars,
                   adminVars, chunkVars, locksVars, objVars,
                   childVars, gmVars>>

\* list_active_role_assignments(..).await? fails
RbacListActiveErr ==
    /\ rbac_pc = "call"
    /\ rbac_pc' = "done"
    /\ rbac_ret' = Some("list active failed")
    /\ UNCHANGED <<rbac_active, rbac_eligible, rbac_token, rbac_secs,
                   rbac_calls, rbac_puts>>
    /\ UNCHANGED <<clientVars, cacheVars, directoryVars, groupVars, pureVars,
                   adminVars, chunkVars, locksVars, objVars,
                   childVars, gmVars>>

\* the eligible assignments are listed: the first that administrates the
\* scope is handed to activate_role_assignment, and without one the call
\* bails
RbacListEligible ==
    /\ rbac_pc = "eligible"
    /\ LET entry == first_rbac_admin(rbac_eligible, RbacTarget)
       IN IF entry.some
          THEN /\ rbac_pc' = "activate"
               /\ rbac_calls' = Append(rbac_calls, entry.value)
               /\ UNCHANGED rbac_ret
          ELSE /\ rbac_pc' = "done"
               /\ rbac_ret' = Some("unable to find role")
               /\ UNCHANGED rbac_calls
    /\ UNCHANGED <<rbac_active, rbac_eligible, rbac_token, rbac_secs,
                   rbac_puts>>
    /\ UNCHANGED <<clientVars, cacheVars, directoryVars, groupVars, pureVars,
                   adminVars, chunkVars, locksVars, objVars,
                   childVars, gmVars>>

\* list_eligible_role_assignments(..).await? fails
RbacListEligibleErr ==
    /\ rbac_pc = "eligible"
    /\ rbac_pc' = "done"
    /\ rbac_ret' = Some("list eligible failed")
    /\ UNCHANGED <<rbac_active, rbac_eligible, rbac_token, rbac_secs,
                   rbac_calls, rbac_puts>>
    /\ UNCHANGED <<clientVars, cacheVars, directoryVars, groupVars, pureVars,
                   adminVars, chunkVars, locksVars, objVars,
                   childVars, gmVars>>

\* activate_role_assignment for the entry: the request is sent when its
\* body can be built, and its result is the result of the call
RbacActivate ==
    /\ rbac_pc = "activate"
    /\ rbac_pc' = "done"
    /\ IF body_ok("activate", rbac_token, rbac_secs)
       THEN /\ rbac_puts' = Append(rbac_puts, rbac_calls[Len(rbac_calls)])
            /\ rbac_ret' \in {Some("Ok"), Some("activation failed")}
       ELSE /\ rbac_ret' = Some("activation failed")
            /\ UNCHANGED rbac_puts
    /\ UNCHANGED <<rbac_active, rbac_eligible, rbac_token, rbac_secs,
                   rbac_calls>>
    /\ UNCHANGED <<clientVars, cacheVars, directoryVars, groupVars, pureVars,
                   adminVars, chunkVars, locksVars, objVars,
                   childVars, gmVars>>

(***************************************************************************)
(* The locks of a PimClient: the three cache mutexes and the token map,    *)
(* as the calls of concurrent tasks take and release them.                 *)
(***************************************************************************)
Locks == {"group_cache", "object_cache", "role_definitions_cache", "tokens"}

LockTasks == 1..MaxTasks

\* Mutex::lock().await, and the drop of the guard
Acquire(l) == [act |-> "lock", lock |-> l]

Release(l) == [act |-> "unlock", lock |-> l]

\* Backend::get_token: the guard lives to the end of the function
get_token_locks == <<Acquire("tokens"), Release("tokens")>>

\* get_objects_by_ids: the object cache is locked first and the guard lives
\* to the return; a chunk, when there is one, needs the token
get_objects_by_ids_locks(cached) ==
    <<Acquire("object_cache")>>
        \o (IF cached THEN <<>> ELSE get_token_locks)
        \o <<Release("object_cache")>>

\* group_members with the two caches locked in the other order
group_members_locks_object_first(cached) ==
    <<Acquire("object_cache"), Acquire("group_cache")>>
        \o (IF cached THEN <<>> ELSE get_token_locks)
        \o <<Release("group_cache"), Release("object_cache")>>

\* graph.rs group_members: the group cache is locked first; on a miss the
\* object cache is locked, then the request needs the token; the guards
\* are dropped in the reverse order of their declaration
group_members_locks(cached) ==
    <<Acquire("group_cache")>>
        \o (IF cached THEN <<>>
            ELSE <<Acquire("object_cache")>> \o get_token_locks
                    \o <<Release("object_cache")>>)
        \o <<Release("group_cache")>>

\* role_definitions: its cache is locked first; on a miss the request
\* needs the token
role_definitions_locks(cached) ==
    <<Acquire("role_definitions_cache")>>
        \o (IF cached THEN <<>> ELSE get_token_locks)
        \o <<Release("role_definitions_cache")>>

\* clear_cache: each guard is a temporary of its statement
clear_cache_locks ==
    <<Acquire("object_cache"), Release("object_cache"),
      Acquire("role_definitions_cache"), Release("role_definitions_cache")>>

\* the calls a task can make
LockCalls ==
    {get_token_locks, clear_cache_locks}
        \cup {get_objects_by_ids_locks(c) : c \in BOOLEAN}
        \cup {group_members_locks(c) : c \in BOOLEAN}
        \cup {role_definitions_locks(c) : c \in BOOLEAN}

LocksIdle ==
    /\ locks_pc = "idle"
    /\ lock_holder = [l \in Locks |-> 0]
    /\ lock_rest = [t \in LockTasks |-> <<>>]

\* no task is in a call and no lock is held
LocksInit ==
    /\ locks_pc = "run"
    /\ lock_holder = [l \in Locks |-> 0]
    /\ lock_rest = [t \in LockTasks |-> <<>>]

\* a task that is in no call makes one
LockCall(t) ==
    /\ locks_pc = "run"
    /\ lock_rest[t] = <<>>
    /\ \E call \in LockCalls : lock_rest' = [lock_rest EXCEPT ![t] = call]
    /\ UNCHANGED <<locks_pc, lock_holder>>
    /\ UNCHANGED <<clientVars, cacheVars, directoryVars, groupVars, pureVars,
                   adminVars, chunkVars, rbacVars, objVars,
                   childVars, gmVars>>

\* lock().await returns: the lock was free and the task holds it now
LockAcquire(t) ==
    /\ locks_pc = "run"
    /\ lock_rest[t] # <<>>
    /\ Head(lock_rest[t]).act = "lock"
    /\ lock_holder[Head(lock_rest[t]).lock] = 0
    /\ lock_holder' = [lock_holder EXCEPT ![Head(lock_rest[t]).lock] = t]
    /\ lock_rest' = [lock_rest EXCEPT ![t] = Tail(@)]
    /\ UNCHANGED locks_pc
    /\ UNCHANGED <<clientVars, cacheVars, directoryVars, groupVars, pureVars,
                   adminVars, chunkVars, rbacVars, objVars,
                   childVars, gmVars>>

\* a guard is dropped
LockRelease(t) ==
    /\ locks_pc = "run"
    /\ lock_rest[t] # <<>>
    /\ Head(lock_rest[t]).act = "unlock"
    /\ lock_holder' = [lock_holder EXCEPT ![Head(lock_rest[t]).lock] = 0]
    /\ lock_rest' = [lock_rest EXCEPT ![t] = Tail(@)]
    /\ UNCHANGED locks_pc
    /\ UNCHANGED <<clientVars, cacheVars, directoryVars, groupVars, pureVars,
                   adminVars, chunkVars, rbacVars, objVars,
                   childVars, gmVars>>

(***************************************************************************)
(* The object cache of a client as its two writers use it:                 *)
(* get_objects_by_ids and graph.rs group_members, with time passing.  The  *)
(* clock advances by the duration of the cache.                            *)
(***************************************************************************)
NoCall == [op |-> "none", ok |-> TRUE, objects |-> {}]

ObjIdle ==
    /\ obj_pc = "idle"
    /\ obj_cache = EmptyMap
    /\ obj_now = Epoch
    /\ obj_sent = {}
    /\ obj_last = NoCall

\* PimClient::new: an empty object cache
ObjInit ==
    /\ obj_pc = "ready"
    /\ obj_cache = EmptyMap
    /\ obj_now = Epoch
    /\ obj_sent = {}
    /\ obj_last = NoCall

\* get_objects_by_ids for all the ids, up to the await: the lock is taken,
\* the ids are filtered and the rest is sent
ObjLookupCall ==
    /\ obj_pc = "ready"
    /\ obj_pc' = "inflight"
    /\ obj_sent' = not_cached(obj_cache, ObjectIds, obj_now)
    /\ obj_last' = NoCall
    /\ UNCHANGED <<obj_cache, obj_now>>
    /\ UNCHANGED <<clientVars, cacheVars, directoryVars, groupVars, pureVars,
                   adminVars, chunkVars, rbacVars, locksVars,
                   childVars, gmVars>>

\* get_objects_by_ids from the await on
ObjLookupReturn ==
    /\ obj_pc = "inflight"
    /\ obj_pc' = "ready"
    /\ \E answers \in ChunkResults(chunks(SetToSeq(obj_sent), CHUNK_SIZE)) :
        LET written == insert_results(obj_cache, answers, 1, obj_now, CACHE_TTL)
            collected == collect(written.cache, ObjectIds, {}, obj_now, CACHE_TTL)
        IN IF written.ok
           THEN /\ obj_cache' = collected.cache
                /\ obj_last' = [op |-> "get_objects_by_ids", ok |-> TRUE,
                                objects |-> collected.result]
           ELSE /\ obj_cache' = written.cache
                /\ obj_last' = [op |-> "get_objects_by_ids", ok |-> FALSE,
                                objects |-> {}]
    /\ obj_sent' = {}
    /\ UNCHANGED obj_now
    /\ UNCHANGED <<clientVars, cacheVars, directoryVars, groupVars, pureVars,
                   adminVars, chunkVars, rbacVars, locksVars,
                   childVars, gmVars>>

\* graph.rs group_members on a miss of the group cache: with the lock of
\* the object cache taken, the members the directory returns are written
\* to it
ObjGroupMembers(found) ==
    /\ obj_pc = "ready"
    /\ obj_cache' = insert_members(obj_cache, found, obj_now, CACHE_TTL)
    /\ obj_last' = [op |-> "group_members", ok |-> TRUE, objects |-> found]
    /\ UNCHANGED <<obj_pc, obj_now, obj_sent>>
    /\ UNCHANGED <<clientVars, cacheVars, directoryVars, groupVars, pureVars,
                   adminVars, chunkVars, rbacVars, locksVars,
                   childVars, gmVars>>

\* time passes, also while a lookup awaits the directory
ObjTick ==
    /\ obj_pc # "idle"
    /\ obj_now < MaxClock * CACHE_TTL
    /\ obj_now' = obj_now + CACHE_TTL
    /\ UNCHANGED <<obj_pc, obj_cache, obj_sent, obj_last>>
    /\ UNCHANGED <<clientVars, cacheVars, directoryVars, groupVars, pureVars,
                   adminVars, chunkVars, rbacVars, locksVars,
                   childVars, gmVars>>

(***************************************************************************)
(* PimClient::eligible_child_resources.  A child resource is its id, a     *)
(* scope.                                                                  *)
(***************************************************************************)
\* the scopes of the provider; the last one has no child resources
ChildScopes == {1, 2, 3}

ParentScopes == {1, 2}

\* every child put on the worklist of a nested call
should_visit_seen(is_nested, seen_set, id) == is_nested

\* nested && !seen.contains(&child.id)
should_visit(is_nested, seen_set, id) == is_nested /\ id \notin seen_set

\* the children the scopes of a worklist list
children_of(set) == UNION {children[scope] : scope \in set}

ChildIdle ==
    /\ child_pc = "idle"
    /\ children = [scope \in ChildScopes |-> {}]
    /\ child_root = 0
    /\ child_nested = FALSE
    /\ child_todo = {}
    /\ child_seen = {}
    /\ child_result = {}
    /\ child_ret = "none"
    /\ child_requests = [scope \in ChildScopes |-> 0]

\* a call of eligible_child_resources for a scope of some provider: the
\* worklist holds the scope
ChildInit ==
    /\ child_pc = "loop"
    /\ children \in {f \in [ChildScopes -> SUBSET ChildScopes] :
                        \A scope \in ChildScopes \ ParentScopes : f[scope] = {}}
    /\ child_root \in ParentScopes
    /\ child_nested \in BOOLEAN
    /\ child_todo = {child_root}
    /\ child_seen = {}
    /\ child_result = {}
    /\ child_ret = "none"
    /\ child_requests = [scope \in ChildScopes |-> 0]

\* one turn of the loop: the worklist is added to seen, a request is sent
\* for each of its scopes, and the children that should be visited make the
\* next worklist
ChildIteration ==
    /\ child_pc = "loop"
    /\ child_todo # {}
    /\ child_seen' = child_seen \cup child_todo
    /\ child_requests' = [scope \in ChildScopes |->
                            IF scope \in child_todo
                            THEN Bump(child_requests[scope])
                            ELSE child_requests[scope]]
    /\ child_todo' = {id \in children_of(child_todo) :
                        should_visit(child_nested, child_seen', id)}
    /\ child_result' = child_result \cup children_of(child_todo)
    /\ UNCHANGED <<child_pc, children, child_root, child_nested, child_ret>>
    /\ UNCHANGED <<clientVars, cacheVars, directoryVars, groupVars, pureVars,
                   adminVars, chunkVars, rbacVars, locksVars, objVars, gmVars>>

\* a turn in which a request or its parsing fails: every request of the
\* turn has been sent when `entry??` returns the error
ChildIterationErr ==
    /\ child_pc = "loop"
    /\ child_todo # {}
    /\ child_seen' = child_seen \cup child_todo
    /\ child_requests' = [scope \in ChildScopes |->
                            IF scope \in child_todo
                            THEN Bump(child_requests[scope])
                            ELSE child_requests[scope]]
    /\ child_pc' = "returned"
    /\ child_ret' = "Err"
    /\ UNCHANGED <<children, child_root, child_nested, child_todo,
                   child_result>>
    /\ UNCHANGED <<clientVars, cacheVars, directoryVars, groupVars, pureVars,
                   adminVars, chunkVars, rbacVars, locksVars, objVars, gmVars>>

\* the worklist is empty: Ok(result)
ChildReturn ==
    /\ child_pc = "loop"
    /\ child_todo = {}
    /\ child_pc' = "returned"
    /\ child_ret' = "Ok"
    /\ UNCHANGED <<children, child_root, child_nested, child_todo,
                   child_seen, child_result, child_requests>>
    /\ UNCHANGED <<clientVars, cacheVars, directoryVars, groupVars, pureVars,
                   adminVars, chunkVars, rbacVars, locksVars, objVars, gmVars>>

(***************************************************************************)
(* The group cache of a client: graph.rs group_members and clear_cache,    *)
(* with time passing.  The clock advances by half the duration of the      *)
(* cache.                                                                  *)
(***************************************************************************)
\* the group the calls are made for, and the member sets the directory may
\* return for it
CachedGroups == {1}

MemberSets == {{}, {1}, {1, 2}}

NotFetched == [some |-> FALSE, at |-> Epoch, members |-> {}]

NoGroupCall ==
    [group |-> 0, cleared |-> FALSE, fresh |-> FALSE, expected |-> {},
     requests |-> 0, ret |-> None]

\* the caches of the client, by the names of its fields
GmCaches ==
    [object_cache |-> gm_objects, group_cache |-> gm_groups,
     role_definitions_cache |-> gm_definitions]

\* the call is made within the duration of the cache after the latest fetch
FreshFetch(id) ==
    gm_fetched[id].some /\ gm_now < gm_fetched[id].at + CACHE_TTL

GmIdle ==
    /\ gm_pc = "idle"
    /\ gm_now = Epoch
    /\ gm_groups = EmptyMap
    /\ gm_objects = EmptyMap
    /\ gm_definitions = EmptyMap
    /\ gm_fetched = [id \in CachedGroups |-> NotFetched]
    /\ gm_cleared = [id \in CachedGroups |-> FALSE]
    /\ gm_last = NoGroupCall

\* PimClient::new: empty caches; the role definitions of a scope may have
\* been listed since
GmInit ==
    /\ gm_pc = "ready"
    /\ gm_now = Epoch
    /\ gm_groups = EmptyMap
    /\ gm_objects = EmptyMap
    /\ gm_definitions \in
           {EmptyMap,
            insert(EmptyMap, "/s", "definitions", Epoch, CACHE_TTL)}
    /\ gm_fetched = [id \in CachedGroups |-> NotFetched]
    /\ gm_cleared = [id \in CachedGroups |-> FALSE]
    /\ gm_last = NoGroupCall

\* group_members(id) that finds the group in the group cache
GmHit(id) ==
    /\ gm_pc # "idle"
    /\ get(gm_groups, id, gm_now).some
    /\ gm_last' = [group |-> id, cleared |-> gm_cleared[id],
                   fresh |-> FreshFetch(id),
                   expected |-> gm_fetched[id].members,
                   requests |-> 0, ret |-> get(gm_groups, id, gm_now)]
    /\ UNCHANGED <<gm_pc, gm_now, gm_groups, gm_objects, gm_definitions,
                   gm_fetched, gm_cleared>>
    /\ UNCHANGED <<clientVars, cacheVars, directoryVars, groupVars, pureVars,
                   adminVars, chunkVars, rbacVars, locksVars, objVars,
                   childVars>>

\* group_members(id) on a miss: with the lock of the object cache taken,
\* the members are requested and written to both caches
GmFetch(id, found) ==
    /\ gm_pc = "ready"
    /\ ~get(gm_groups, id, gm_now).some
    /\ gm_objects' = insert_members(gm_objects, found, gm_now, CACHE_TTL)
    /\ gm_groups' = insert(gm_groups, id, found, gm_now, CACHE_TTL)
    /\ gm_fetched' = [gm_fetched EXCEPT
                          ![id] = [some |-> TRUE, at |-> gm_now,
                                   members |-> found]]
    /\ gm_cleared' = [gm_cleared EXCEPT ![id] = FALSE]
    /\ gm_last' = [group |-> id, cleared |-> gm_cleared[id],
                   fresh |-> FreshFetch(id),
                   expected |-> gm_fetched[id].members,
                   requests |-> 1, ret |-> Some(found)]
    /\ UNCHANGED <<gm_pc, gm_now, gm_definitions>>
    /\ UNCHANGED <<clientVars, cacheVars, directoryVars, groupVars, pureVars,
                   adminVars, chunkVars, rbacVars, locksVars, objVars,
                   childVars>>

\* group_members(id) on a miss whose request or parsing fails
GmFetchErr(id) ==
    /\ gm_pc = "ready"
    /\ ~get(gm_groups, id, gm_now).some
    /\ gm_last' = [group |-> id, cleared |-> gm_cleared[id],
                   fresh |-> FreshFetch(id),
                   expected |-> gm_fetched[id].members,
                   requests |-> 1, ret |-> None]
    /\ UNCHANGED <<gm_pc, gm_now, gm_groups, gm_objects, gm_definitions,
                   gm_fetched, gm_cleared>>
    /\ UNCHANGED <<clientVars, cacheVars, directoryVars, groupVars, pureVars,
                   adminVars, chunkVars, rbacVars, locksVars, objVars,
                   childVars>>

\* clear_cache: self.object_cache.lock().await.clear()
GmClearObjects ==
    /\ gm_pc = "ready"
    /\ gm_pc' = "clearing"
    /\ gm_objects' = clear_cache(GmCaches).object_cache
    /\ gm_groups' = clear_cache(GmCaches).group_cache
    /\ UNCHANGED <<gm_now, gm_definitions, gm_fetched, gm_cleared, gm_last>>
    /\ UNCHANGED <<clientVars, cacheVars, directoryVars, groupVars, pureVars,
                   adminVars, chunkVars, rbacVars, locksVars, objVars,
                   childVars>>

\* clear_cache: self.role_definitions_cache.lock().await.clear(), and the
\* return
GmClearDefinitions ==
    /\ gm_pc = "clearing"
    /\ gm_pc' = "ready"
    /\ gm_definitions' = clear_cache(GmCaches).role_definitions_cache
    /\ gm_groups' = clear_cache(GmCaches).group_cache
    /\ gm_cleared' = [id \in CachedGroups |-> gm_fetched[id].some]
    /\ UNCHANGED <<gm_now, gm_objects, gm_fetched, gm_last>>
    /\ UNCHANGED <<clientVars, cacheVars, directoryVars, groupVars, pureVars,
                   adminVars, chunkVars, rbacVars, locksVars, objVars,
                   childVars>>

\* time passes
GmTick ==
    /\ gm_pc # "idle"
    /\ gm_now < MaxClock * CACHE_TTL
    /\ gm_now' = gm_now + CACHE_TTL \div 2
    /\ UNCHANGED <<gm_pc, gm_groups, gm_objects, gm_definitions, gm_fetched,
                   gm_cleared, gm_last>>
    /\ UNCHANGED <<clientVars, cacheVars, directoryVars, groupVars, pureVars,
                   adminVars, chunkVars, rbacVars, locksVars, objVars,
                   childVars>>

(***************************************************************************)
(* Specifications.  A behaviour is a run of one part; the parts that do    *)
(* not run stay idle.                                                      *)
(***************************************************************************)
ClientIdle == RequestIdle /\ BatchIdle /\ WaitIdle

PureIdle == ScopeIdle /\ DumpIdle /\ FormatIdle

AdminIdle ==
    OrphanIdle /\ CachesIdle /\ TokenIdle /\ OrderIdle /\ CallIdle

RestIdle ==
    ChunkIdle /\ RbacIdle /\ LocksIdle /\ ObjIdle /\ ChildIdle /\ GmIdle

LibraryIdle ==
    /\ CacheIdle /\ DirectoryIdle /\ GroupIdle /\ PureIdle /\ AdminIdle
    /\ RestIdle

Init ==
    \/ RequestInit /\ BatchIdle /\ WaitIdle /\ LibraryIdle
    \/ RequestIdle /\ BatchInit /\ WaitIdle /\ LibraryIdle
    \/ RequestIdle /\ BatchIdle /\ WaitInit /\ LibraryIdle
    \/ ClientIdle /\ RestIdle /\ AdminIdle /\ PureIdle
          /\ \/ CacheInit /\ DirectoryIdle /\ GroupIdle
             \/ CacheIdle /\ DirectoryInit /\ GroupIdle
             \/ CacheIdle /\ DirectoryIdle /\ GroupInit
    \/ ClientIdle /\ RestIdle /\ AdminIdle /\ CacheIdle /\ DirectoryIdle /\ GroupIdle
          /\ \/ ScopeInit /\ DumpIdle /\ FormatIdle
             \/ ScopeIdle /\ DumpInit /\ FormatIdle
             \/ ScopeIdle /\ DumpIdle /\ FormatInit
    \/ ClientIdle /\ RestIdle /\ PureIdle /\ CacheIdle /\ DirectoryIdle /\ GroupIdle
          /\ \/ OrphanInit /\ CachesIdle /\ TokenIdle /\ OrderIdle /\ CallIdle
             \/ OrphanIdle /\ CachesInit /\ TokenIdle /\ OrderIdle /\ CallIdle
             \/ OrphanIdle /\ CachesIdle /\ TokenInit /\ OrderIdle /\ CallIdle
             \/ OrphanIdle /\ CachesIdle /\ TokenIdle /\ OrderInit /\ CallIdle
             \/ OrphanIdle /\ CachesIdle /\ TokenIdle /\ OrderIdle /\ CallInit
    \/ ClientIdle /\ PureIdle /\ CacheIdle /\ DirectoryIdle /\ GroupIdle
          /\ AdminIdle
          /\ \/ ChunkInit /\ RbacIdle /\ LocksIdle /\ ObjIdle /\ ChildIdle
                   /\ GmIdle
             \/ ChunkIdle /\ RbacInit /\ LocksIdle /\ ObjIdle /\ ChildIdle
                   /\ GmIdle
             \/ ChunkIdle /\ RbacIdle /\ LocksInit /\ ObjIdle /\ ChildIdle
                   /\ GmIdle
             \/ ChunkIdle /\ RbacIdle /\ LocksIdle /\ ObjInit /\ ChildIdle
                   /\ GmIdle
             \/ ChunkIdle /\ RbacIdle /\ LocksIdle /\ ObjIdle /\ ChildInit
                   /\ GmIdle
             \/ ChunkIdle /\ RbacIdle /\ LocksIdle /\ ObjIdle /\ ChildIdle
                   /\ GmInit

Next ==
    \/ RequestAttempt
    \/ SetCall
    \/ \E a \in RoleAssignment : PollStart(a)
    \/ \E a \in RoleAssignment : Respond(a)
    \/ JoinAll
    \/ WaitCall
    \/ WaitLoop
    \/ ListOk
    \/ ListErr
    \/ Tick
    \/ ProviderChange
    \/ \E k \in Keys, v \in Values : CacheInsert(k, v)
    \/ \E k \in Keys : CacheGet(k)
    \/ \E k \in Keys : CacheContainsKey(k)
    \/ CacheTick
    \/ \E req \in SUBSET ObjectIds : GetObjectsCall(req)
    \/ GetObjectsReturn
    \/ DirectoryTick
    \/ DirectMembers
    \/ ExpandStart
    \/ ExpandSkip
    \/ ExpandFetch
    \/ ExpandFetchErr
    \/ ExpandReturn
    \/ ScopeContains
    \/ ScopeIsSubscription
    \/ ScopeNew
    \/ ScopeFromStr
    \/ ScopeFromParts
    \/ ScopeDeserialize
    \/ RemoveDominatedScopes
    \/ FormatDuration
    \/ OrphanList
    \/ OrphanListErr
    \/ OrphanNext
    \/ \E read \in Reads : OrphanConfirm(read)
    \/ OrphanDelete
    \/ OrphanDeleteErr
    \/ OrphanReturn
    \/ \E req \in SUBSET ObjectIds : LookupCall(req)
    \/ LookupReturn
    \/ \E scope \in DefinitionScopes : RoleDefinitionsCall(scope)
    \/ \E scope \in DefinitionScopes : RoleDefinitionsReturn(scope)
    \/ ClearCacheCall
    \/ ClearCacheObjects
    \/ ClearCacheDefinitions
    \/ \E t \in TokenTasks, scope \in TokenScopes : GetTokenCall(t, scope)
    \/ \E t \in TokenTasks : GetTokenOk(t)
    \/ \E t \in TokenTasks : GetTokenErr(t)
    \/ RoleAssignmentCmp
    \/ RoleAssignmentWait
    \/ CallBuild
    \/ CallAttempt
    \/ SendChunks
    \/ RbacListActive
    \/ RbacListActiveErr
    \/ RbacListEligible
    \/ RbacListEligibleErr
    \/ RbacActivate
    \/ \E t \in LockTasks : LockCall(t)
    \/ \E t \in LockTasks : LockAcquire(t)
    \/ \E t \in LockTasks : LockRelease(t)
    \/ ObjLookupCall
    \/ ObjLookupReturn
    \/ \E found \in SUBSET ObjectIds : ObjGroupMembers(found)
    \/ ObjTick
    \/ ChildIteration
    \/ ChildIterationErr
    \/ ChildReturn
    \/ \E id \in CachedGroups : GmHit(id)
    \/ \E id \in CachedGroups, found \in MemberSets : GmFetch(id, found)
    \/ \E id \in CachedGroups : GmFetchErr(id)
    \/ GmClearObjects
    \/ GmClearDefinitions
    \/ GmTick

Spec == Init /\ [][Next]_vars

\* A request in its retry loop and a set operation keep running: an attempt
\* ends, the executor polls a future it holds.  The wait keeps running and
\* its list call returns, and the clock advances.  The provider is free to
\* change its state or not.
FairSpec ==
    /\ Spec
    /\ WF_vars(\/ RequestAttempt
               \/ SetCall
               \/ \E a \in RoleAssignment : PollStart(a)
               \/ \E a \in RoleAssignment : Respond(a)
               \/ JoinAll
               \/ DirectMembers
               \/ ExpandStart
               \/ ExpandSkip
               \/ ExpandFetch
               \/ ExpandReturn
               \/ ChildIteration
               \/ ChildReturn)
    /\ WF_vars(WaitCall \/ WaitLoop \/ ListOk \/ ListErr)
    /\ WF_vars(Tick)

(***************************************************************************)
(* Properties.                                                             *)
(***************************************************************************)
InFlight == {a \in RoleAssignment : task[a].st = "inflight"}

CallFailed == {a \in assignments : task[a].result = "Err"}

\* C1: in a set operation on a non-empty set the call for every assignment
\* is issued and runs to completion whatever the other calls do: when the
\* operation returns every call has completed, a completed call is never
\* touched again, and a running set operation eventually returns (so every
\* one of its calls eventually completes).
C1_FanOutThenAggregate ==
    /\ [](bpc = "done" /\ assignments # {}
            => \A a \in assignments : task[a].st = "done")
    /\ [][\A a \in assignments :
            task[a].st = "done" => task'[a] = task[a]]_vars
    /\ (bpc = "join") ~> (bpc = "done")

\* a set operation has returned in which a call failed and a call that
\* started after it was sent and succeeded
C1_Witness ==
    /\ bpc = "done"
    /\ \E a, b \in assignments :
         /\ a < b
         /\ task[a].outcome = "Failed"
         /\ task[b].outcome = "Success"
         /\ b \in issued

\* C2: a set operation on a non-empty set returns Ok iff no call failed;
\* otherwise it returns the aggregate error and the failed set it lists is
\* exactly the set of assignments whose call failed.
C2_AggregateExact ==
    (bpc = "done" /\ assignments # {}) =>
        /\ (bresult = "Ok") <=> (CallFailed = {})
        /\ bresult # "Ok" => (bresult = "failed" /\ failed = CallFailed)

\* exactly one of the calls of the largest set failed and the error names that one
C2_Witness ==
    /\ bpc = "done"
    /\ Cardinality(assignments) = MaxAssignments
    /\ Cardinality(CallFailed) = 1
    /\ bresult = "failed"
    /\ failed = CallFailed

\* C3: a set operation called with an empty set fails with "no roles
\* specified" and sends no request.
C3_EmptySetRejected ==
    assignments = {} =>
        /\ issued = {}
        /\ InFlight = {}
        /\ bpc = "done" => bresult = "no roles specified"

\* a set operation on the empty set has returned
C3_Witness ==
    /\ bpc = "done"
    /\ assignments = {}
    /\ bresult = "no roles specified"

\* C4: a PUT sent with the activation validator, or by activate_role, that
\* receives 400 with error code RoleAssignmentExists or
\* RoleAssignmentRequestExists completes as success: the request returns
\* Ok, the call of a set operation returns Ok and its assignment is not in
\* the failed set.
C4_BenignConflictIsSuccess ==
    /\ (rpc = "done" /\ tries > 0 /\ IsBenignConflict(last_outcome)
          /\ req_kind \in {"send_validated", "activate_role"})
         => req_result = "Ok"
    /\ \A a \in assignments :
         task[a].benign =>
            /\ task[a].result = "Ok"
            /\ task[a].outcome = "Success"
            /\ a \notin failed

\* a set operation has returned Ok although the provider answered one of
\* its calls, after a retry, with 400 and a benign conflict code
C4_Witness ==
    /\ bpc = "done"
    /\ bresult = "Ok"
    /\ \E a \in assignments : task[a].benign /\ a \in issued

\* C5: during a set operation called with concurrency c at most c calls are
\* in flight.
C5_BoundedInFlight == Cardinality(InFlight) <= concurrency

\* C6: a transport failure and a 429 are retried: while a delay is left in
\* the retry budget neither ends the request with an error.
C6_TransientRetried ==
    (rpc = "done" /\ tries > 0 /\ IsTransient(last_outcome) /\ had_delay)
        => req_result # "Err"

\* the error a retryable attempt carries
RetryError(o) == IF o.transport THEN "transport" ELSE "rate limited"

\* C7 as stated: retry_request makes at most 10 attempts, and when every
\* attempt ends in a retryable failure it returns the error of the last.
C7_AtMostTenAttempts ==
    req_kind \in {"send_validated", "send_plain"} =>
        /\ tries <= RETRY_COUNT
        /\ (rpc = "done" /\ all_retryable)
             => (req_result = "Err" /\ req_error = RetryError(last_outcome))

\* C7: retry_request makes at most RETRY_COUNT + 1 = 11 attempts, the first
\* and one after each of the RETRY_COUNT delays; when every attempt ends in
\* a retryable failure it has made all 11, returns the error of the last
\* as its error, and in every case it terminates.
C7_AtMostElevenAttempts ==
    /\ [](req_kind \in {"send_validated", "send_plain"} =>
            /\ tries <= RETRY_COUNT + 1
            /\ (rpc = "done" /\ all_retryable)
                 => /\ tries = RETRY_COUNT + 1
                    /\ req_result = "Err"
                    /\ req_error = RetryError(last_outcome))
    /\ (rpc = "trying") ~> (rpc = "done" /\ req_result # "none")

\* retry_request has given up after eleven retryable failures
C7_Witness ==
    /\ req_kind \in {"send_validated", "send_plain"}
    /\ rpc = "done"
    /\ all_retryable
    /\ tries = RETRY_COUNT + 1
    /\ req_result = "Err"

\* C8: a wait on a non-empty set whose assignments are all active at the
\* provider throughout returns Ok whatever the timeout is (an error of the
\* list call itself set aside).
C8_AlreadyActiveReturnsOk ==
    (wpc = "done" /\ input # {} /\ all_active /\ wresult # "list error")
        => wresult = "Ok"

\* C9 as stated: a wait on a set none of whose assignments is ever active
\* returns, not before the timeout has elapsed, a timeout error that lists
\* every assignment of the set.
C9_NeverActiveTimesOut ==
    (wpc = "done" /\ input # {} /\ ~some_active) =>
        /\ wresult = "timed out"
        /\ wlisted = input
        /\ now - start >= wait_timeout

\* C9: a wait on a non-empty set none of whose assignments is ever active
\* terminates; unless a list call fails, whose error it then returns at
\* once, it returns not before the timeout has elapsed and with a timeout
\* error that lists every assignment of the set.
C9_NeverActiveTimesOutOrListError ==
    /\ []((wpc = "done" /\ input # {} /\ ~some_active) =>
            \/ wresult = "list error"
            \/ /\ wresult = "timed out"
               /\ wlisted = input
               /\ now - start >= wait_timeout)
    /\ (wpc \in {"call", "loop", "listing"}) ~> (wpc = "done" \/ some_active)

\* a wait has listed at least once, found nothing active, and timed out
C9_Witness ==
    /\ wpc = "done"
    /\ Cardinality(input) >= 2
    /\ ~some_active
    /\ last # -1
    /\ wait_timeout > 0
    /\ wresult = "timed out"
    /\ wlisted = input

\* C10: the waiting set starts as the input set and only shrinks; an
\* assignment has left it exactly when a listing has contained it; the
\* wait returns Ok only if every input assignment was seen in a listing,
\* and a timeout error lists exactly the input assignments never seen.
C10_WaitingOnlyShrinks ==
    /\ [](wpc \in {"loop", "listing"} \/ (wpc = "done" /\ input # {})
            => waiting = input \ observed)
    /\ [][wpc # "call" => waiting' \subseteq waiting]_vars
    /\ [](wpc = "done" =>
            /\ wresult = "Ok" => observed = input
            /\ wresult = "timed out" =>
                 (wlisted = input \ observed /\ wlisted # {}))

\* a wait has timed out for an assignment that was listed once and is not
\* active any more, and for one that never was
C10_Witness ==
    /\ wpc = "done"
    /\ wresult = "timed out"
    /\ \E a, b \in input :
         /\ a \in observed /\ a \notin active /\ a \notin wlisted
         /\ b \notin observed /\ b \in wlisted

\* the latest insert of the key is less than the duration of the map ago
Younger(k) == k \in DOMAIN inserted /\ clock - inserted[k].at < ttl

\* C11: get(k) returns the value of the latest insert(k, v) iff less than
\* the TTL has elapsed since that insert and None otherwise, and
\* contains_key(k) is true in exactly that case.
C11_VisibleIffYoungerThanTtl ==
    /\ cache_last.op = "get" =>
          cache_last.ret = IF Younger(cache_last.key)
                           THEN Some(inserted[cache_last.key].value)
                           ELSE None
    /\ cache_last.op = "contains_key" =>
          cache_last.ret = Some(Younger(cache_last.key))

\* C12: insert(k, v) sweeps before it inserts: the entries stored after an
\* insert are the entries stored before it whose insert is less than the
\* TTL ago, unchanged, plus the inserted key with the inserted value; no
\* entry as old as the TTL is stored after an insert.
C12_InsertSweepsExpired ==
    /\ [](cache_last.op = "insert" => \A x \in DOMAIN data : Younger(x))
    /\ [][(cache_last'.op = "insert" /\ <<data, cache_last>>' # <<data, cache_last>>)
            => /\ DOMAIN data' = {x \in DOMAIN data : Younger(x)} \cup {cache_last'.key}
               /\ \A x \in DOMAIN data' \ {cache_last'.key} : data'[x] = data[x]
               /\ data'[cache_last'.key].value = cache_last'.ret.value]_vars

\* an insert has swept an entry as old as the TTL and kept a younger one
C12_Witness ==
    /\ cache_last.op = "insert"
    /\ \E x \in DOMAIN inserted : x \notin DOMAIN data
    /\ \E x \in DOMAIN data : x # cache_last.key

\* a step in which a get_objects_by_ids call sends its chunks
GetObjectsCalled == gpc = "ready" /\ gpc' = "inflight"

\* a call that returned Ok had the id answered by the directory, less than
\* the TTL ago
LookedUp(id) ==
    /\ looked_up[id].at >= 0
    /\ instant - looked_up[id].at < object_ttl

C14_UnknownIdTombstoned ==
    /\ [](gresult.tag = "Ok" =>
            \A id \in ids :
                looked_up[id] = [at |-> instant, found |-> FALSE] =>
                    /\ id \notin gresult.map
                    /\ get(object_cache, id, instant) = Some(None))
    /\ [][GetObjectsCalled =>
            \A id \in ids' :
                (LookedUp(id) /\ ~looked_up[id].found) => id \notin to_update']_vars
    /\ [](gresult.tag = "Ok" =>
            \A id \in ids \ to_update :
                (LookedUp(id) /\ ~looked_up[id].found) => id \notin gresult.map)

\* a second call has returned Ok for an id tombstoned at an earlier instant
C14_Witness ==
    /\ gresult.tag = "Ok"
    /\ \E id \in ids \ to_update :
          /\ LookedUp(id)
          /\ ~looked_up[id].found
          /\ looked_up[id].at < instant
          /\ id \notin gresult.map
          /\ get(object_cache, id, instant) = Some(None)

\* the groups reachable from the groups of S through group membership
RECURSIVE Reachable(_)
Reachable(S) ==
    LET next == S \cup {m \in GroupIds : \E g \in S : m \in members[g]}
    IN IF next = S THEN S ELSE Reachable(next)

\* C15: a nested group_members call returns on every group graph, cyclic
\* ones included, and fetches the direct members of a group id at most once.
C15_ExpansionTerminates ==
    /\ [](\A g \in GroupIds : fetches[g] <= 1)
    /\ (epc = "loop") ~> (epc = "returned")

\* an expansion has returned Ok on a graph in which the root and another
\* group contain each other
C15_Witness ==
    /\ nested
    /\ eresult = "Ok"
    /\ \E g \in GroupIds \ {root} : g \in members[root] /\ root \in members[g]

\* C16: a nested group_members call that returns Ok returns the union of
\* the direct members of the root and of every group reachable from it,
\* groups included; a call that is not nested returns the direct members
\* of the root.
C16_UnionOfReachable ==
    (epc = "returned" /\ eresult = "Ok") =>
        results = IF nested
                  THEN UNION {members[g] : g \in Reachable({root})}
                  ELSE members[root]

\* a nested call has returned members that only a nested group has, the
\* root among them: the groups contain each other
C16_Witness ==
    /\ nested
    /\ eresult = "Ok"
    /\ results \ members[root] # {}
    /\ root \in results

\* the call of a Scope method has returned
Returned(fn) == scope_fn = fn /\ scope_ret.some

\* C17: a.contains(b) holds iff the '/'-split segments of a are the first
\* len(a) segments of b, which is to say that b is a, or a followed by a
\* '/' and more; a.contains(a) holds.
C17_SegmentPrefix ==
    Returned("contains") =>
        LET a == split(scope_self)
            b == split(scope_other)
        IN /\ scope_ret.value = (/\ Len(a) <= Len(b)
                                 /\ \A i \in 1..Len(a) : a[i] = b[i])
           /\ scope_ret.value = (\/ scope_other = scope_self
                                 \/ starts_with(scope_other, scope_self \o <<"/">>))
           /\ (scope_self = scope_other => scope_ret.value)

\* contains has returned false for a scope whose path is a string prefix
\* of the other path
C17_Witness ==
    /\ Returned("contains")
    /\ starts_with(scope_other, scope_self)
    /\ ~scope_ret.value

\* C18: is_subscription() is true iff the path has exactly the segments
\* of /subscriptions/<id>, and false for every path with further segments.
C18_ExactlySubscription ==
    Returned("is_subscription") =>
        LET a == split(scope_self)
        IN scope_ret.value = (Len(a) = 3 /\ a[1] = <<>> /\ a[2] = <<"s">>)

\* a path of exactly the segments of /subscriptions/<id>
ExactlySubscription(path) ==
    LET a == split(path)
    IN Len(a) = 3 /\ a[1] = <<>> /\ a[2] = <<"s">>

\* C19: remove_dominated_scopes returns entries of its input, and drops an
\* entry iff another entry of the input has the same principal id and the
\* same role at a subscription scope that contains the entry's scope.
C19_DroppedIffSubscriptionDominates ==
    dump_ret.some =>
        /\ dump_ret.value \subseteq dump_data
        /\ \A e \in dump_data :
              e \notin dump_ret.value <=>
                  \E d \in dump_data \ {e} :
                      /\ d.id = e.id
                      /\ d.role = e.role
                      /\ ExactlySubscription(d.scope)
                      /\ contains(d.scope, e.scope)

\* the number a sequence of decimal digits stands for
RECURSIVE from_digits(_)
from_digits(digits) ==
    IF digits = <<>> THEN 0
    ELSE from_digits(SubSeq(digits, 1, Len(digits) - 1)) * 10
         + (CHOOSE d \in 0..9 : DigitChars[d + 1] = digits[Len(digits)])

\* the components of the text after "PT": each a number and a unit letter
RECURSIVE components(_)
components(text) ==
    IF text = <<>> THEN <<>>
    ELSE LET k == Min({i \in 1..Len(text) : text[i] \in {"H", "M", "S"}})
         IN <<[n |-> from_digits(SubSeq(text, 1, k - 1)), unit |-> text[k]]>>
            \o components(SubSeq(text, k + 1, Len(text)))

NonZero(c) == c.n > 0

UnitSeconds(unit) == IF unit = "H" THEN 3600 ELSE IF unit = "M" THEN 60 ELSE 1

RECURSIVE total_seconds(_)
total_seconds(cs) ==
    IF cs = <<>> THEN 0
    ELSE cs[1].n * UnitSeconds(cs[1].unit) + total_seconds(Tail(cs))

\* C20: format_duration rejects 0 seconds; for n >= 1 the text is "PT" and
\* then h "H", m "M", s "S" in this order with h = n div 3600,
\* m = (n mod 3600) div 60, s = n mod 60, a component left out iff it is
\* zero, so that the components add up to n; 3661 gives PT1H1M1S, 86400
\* gives PT24H and 90061 gives PT25H1M1S.
C20_FormatDuration ==
    format_ret.some =>
        LET r == format_ret.value
            n == as_secs
            h == n \div 3600
            m == (n % 3600) \div 60
            sec == n % 60
            cs == components(SubSeq(r.text, 3, Len(r.text)))
        IN IF n = 0 THEN ~r.ok
           ELSE /\ r.ok
                /\ starts_with(r.text, <<"P", "T">>)
                /\ cs = SelectSeq(<<[n |-> h, unit |-> "H"],
                                    [n |-> m, unit |-> "M"],
                                    [n |-> sec, unit |-> "S"]>>, NonZero)
                /\ total_seconds(cs) = n
                /\ (n = 3661 => r.text = <<"P", "T", "1", "H", "1", "M", "1", "S">>)
                /\ (n = 86400 => r.text = <<"P", "T", "2", "4", "H">>)
                /\ (n = 90061 =>
                      r.text = <<"P", "T", "2", "5", "H", "1", "M", "1", "S">>)

\* a duration of more than a day with hours, minutes and seconds has been
\* formatted
C20_Witness ==
    /\ format_ret.some
    /\ format_ret.value.ok
    /\ as_secs > 86400
    /\ Len(components(SubSeq(format_ret.value.text, 3,
                             Len(format_ret.value.text)))) = 3

\* the positions of the listing a delete request was sent for
Deleted == {d.at : d \in deletes}

\* C21: the orphan reconciler sends a delete request (DELETE for a plain
\* assignment, AdminRemove for an eligible one) only for an entry whose
\* object is None and whose deletion was confirmed, by the answer_yes flag
\* or by the answer 'y' for that entry; an entry whose principal resolved,
\* and an entry answered 'n', is never deleted
C21_DeleteOnlyConfirmedOrphans ==
    /\ \A d \in deletes :
          /\ ~listed[d.at].object
          /\ answer_yes \/ answered[d.at] = Some(Some(TRUE))
          /\ d.request = IF orphan_fn = "plain" THEN "DELETE" ELSE "AdminRemove"
    /\ \A at \in 1..Len(listed) :
          listed[at].object \/ answered[at] = Some(Some(FALSE))
              => at \notin Deleted

\* the reconciler has returned Ok over three entries: one resolved, one
\* answered 'n', one answered 'y' and deleted
C21_Witness ==
    /\ oresult = Some("Ok")
    /\ Len(listed) = 3
    /\ \E i, j, k \in 1..3 :
          /\ listed[i].object /\ i \notin Deleted
          /\ answered[j] = Some(Some(FALSE)) /\ j \notin Deleted
          /\ answered[k] = Some(Some(TRUE)) /\ k \in Deleted

\* C22: once clear_cache has returned, no Object or Definition entry that
\* was cached when it was called is served: none of them is visible in its
\* cache, and a get_objects_by_ids call sends every such id it is asked
\* for to the directory again (role_definitions, finding no entry, queries
\* the provider)
C22_ClearCacheInvalidates ==
    /\ [](clear_pc = "returned" =>
            /\ marked_objects \cap Visible(pim_objects, Epoch) = {}
            /\ marked_definitions \cap Visible(pim_definitions, Epoch) = {})
    /\ [][clear_pc = "returned" /\ ~objects_held /\ objects_held'
            => wanted' \cap marked_objects \subseteq sent']_vars
    /\ [][clear_pc = "returned" /\ ~definitions_held /\ definitions_held'
            => definitions_from' = "provider"]_vars

\* after clear_cache has returned, a lookup of an id and a listing of the
\* definitions of a scope that were both cached before are in flight
C22_Witness ==
    /\ clear_pc = "returned"
    /\ objects_held
    /\ wanted \cap marked_objects # {}
    /\ definitions_held
    /\ marked_definitions # {}

\* C23 as stated: for each token scope the token provider is invoked at
\* most once, whatever the sequence or interleaving of get_token calls
C23_ProviderInvokedAtMostOnce ==
    \A scope \in TokenScopes : invocations[scope] <= 1

\* C23, amended: invocations of the provider never overlap; once an
\* invocation for a scope has returned a token the provider is not invoked
\* for that scope again, and every call that returns Ok returns the
\* memoized token of its scope
C23_ProviderInvokedUntilSuccess ==
    /\ [](\A t, u \in TokenTasks :
            token_task[t].pc = "provider" /\ token_task[u].pc = "provider"
                => t = u)
    /\ [](\A t \in TokenTasks :
            token_task[t].pc = "done" /\ token_task[t].ret.some
                => /\ token_task[t].scope \in DOMAIN tokens
                   /\ token_task[t].ret.value = tokens[token_task[t].scope])
    /\ [][\A scope \in TokenScopes :
            scope \in DOMAIN tokens
                => /\ invocations'[scope] = invocations[scope]
                   /\ tokens'[scope] = tokens[scope]]_vars

\* the provider failed for a scope and was invoked again with success, and
\* a later call returned the memoized token without invoking it
C23_Witness ==
    \E scope \in TokenScopes, t \in TokenTasks :
        /\ invocations[scope] = 2
        /\ scope \in DOMAIN tokens
        /\ token_task[t] = TokenCall("done", scope, FALSE, Some(tokens[scope]))

\* C24: between the starts of two consecutive list calls of one wait at
\* least the poll interval elapses, however fast the list call returns
C24_PollInterval ==
    [][wpc = "loop" /\ wpc' = "listing" /\ listed_at # -1
          => now' - listed_at >= WAIT_DELAY]_vars

\* C25: the lock of a cache and the lock of the token map are never held
\* while a network call is in progress: no get_objects_by_ids call holds
\* the object cache lock while its directory request is out, no
\* role_definitions call holds its lock while its request is out, and no
\* get_token call holds the lock of the token map while the provider runs
C25_NoLockAcrossNetworkCall ==
    /\ objects_held => sent = {}
    /\ gpc = "inflight" => to_update = {}
    /\ ~definitions_held
    /\ \A t \in TokenTasks : token_task[t].pc = "provider" => token_lock # t

\* the outcome of an assignment: Pending until its call has returned
Pending(a) == task[a].outcome = "none"

\* an outcome, once Success or Failed, stays as it is, and a call that has
\* started is never started again
OutcomeSetOnce ==
    [][\A a \in RoleAssignment :
          /\ ~Pending(a) => task'[a].outcome = task[a].outcome
          /\ task[a].st \in {"inflight", "done"}
                => task'[a].st \in {"inflight", "done"}]_vars

\* a set operation over a non-empty set has returned
SetReturned == bpc = "done" /\ assignments # {}

\* C26 as stated: each assignment's outcome moves from Pending to exactly
\* one of Success and Failed, once, and never changes afterwards, and
\* exactly one provider request (with its retries) is made for each
\* assignment of the set
C26_OneOutcomeOneRequest ==
    /\ OutcomeSetOnce
    /\ [](SetReturned =>
            \A a \in assignments :
                /\ task[a].outcome \in {"Success", "Failed"}
                /\ a \in issued)

\* C26, amended: the same, with at most one provider request for each
\* assignment: exactly one when the request body can be built, and none,
\* with the outcome Failed, when it cannot (no principal id, or a duration
\* without whole seconds)
C26_OneOutcomeAtMostOneRequest ==
    /\ OutcomeSetOnce
    /\ [](\A a \in issued : a \in assignments /\ task[a].st \in {"inflight", "done"})
    /\ [](SetReturned =>
            \A a \in assignments :
                /\ task[a].outcome \in {"Success", "Failed"}
                /\ a \in issued <=> body_ok(op, token_ok, duration)
                /\ a \notin issued => task[a].outcome = "Failed")

\* a set operation over two assignments has returned, one of them Success
\* and one Failed, each after its one request
C26_Witness ==
    /\ SetReturned
    /\ issued = assignments
    /\ \E a, b \in assignments :
          task[a].outcome = "Success" /\ task[b].outcome = "Failed"

\* a response that is not 429 and is rejected: without a validator any
\* status that is not 2xx, under the activation validator a 400 that is
\* not one of the two benign conflicts
Rejected(kind, o) ==
    /\ ~o.transport
    /\ o.status # TOO_MANY_REQUESTS
    /\ IF kind = "send_plain"
       THEN ~is_success(o.status)
       ELSE o.status = BAD_REQUEST /\ ~IsBenignConflict(o)

\* C27: a rejected response that is not 429 ends the request at once with
\* an error: the attempt that receives it is the last one, although
\* retry budget remains
C27_RejectedIsFatal ==
    [][tries' = tries + 1 /\ Rejected(req_kind, last_outcome')
          => rpc' = "done" /\ req_result' = "Err"]_vars

\* a request has been retried once and then ended with an error on a
\* rejected response, with delays left
C27_Witness ==
    /\ rpc = "done"
    /\ req_result = "Err"
    /\ tries = 2
    /\ had_delay
    /\ Rejected(req_kind, last_outcome)

\* C28: every Scope the program obtains starts with '/': Scope::new and
\* FromStr return one only for such a string, the from_* constructors
\* build only such paths, and a deserialized Scope starts with '/' too
C28_LeadingSlash ==
    (/\ scope_fn \in {"new", "from_str", "deserialize"} \cup Constructors
     /\ scope_ret.some
     /\ scope_ret.value.ok)
        => starts_with(scope_ret.value.scope, <<"/">>)

\* the fields the spec names as the key of a role assignment
SameKey(a, b) ==
    a.role = b.role /\ a.scope = b.scope /\ a.scope_name = b.scope_name

\* C29: two role assignments equal on (role, scope, scope_name) compare
\* equal, are one element of an ordered set, and the one is found in a set
\* that holds the other, as in the active-set check of the wait
C29_OrderByRoleScopeName ==
    (ra_ret.some /\ SameKey(ra_entry.value, ra_active.value))
        => /\ ra_ret.value.ordering = "Equal"
           /\ ra_ret.value.equal
           /\ ra_fn = "cmp" => Cardinality(ra_ret.value.set) = 1
           /\ ra_fn = "wait" => ra_ret.value.set = {}

\* C30: activate_role_assignment and extend_role_assignment called with a
\* duration of zero whole seconds return an error without sending a PUT,
\* and the error is not retried: the call never reaches its retry loop;
\* the same holds of the calls a set activation makes
C30_ZeroDurationNotSent ==
    /\ (call_fn # "idle" /\ call_secs = 0)
          => /\ call_puts = 0
             /\ call_pc \in {"call", "done"}
             /\ call_pc = "done" => call_ret = Some("Err")
    /\ (bpc # "idle" /\ op = "activate" /\ duration = 0)
          => /\ issued = {}
             /\ \A a \in RoleAssignment :
                    task[a].st = "done" => task[a].result = "Err"

\* extend_role_assignment has returned an error for a zero duration, the
\* principal id being at hand
C30_Witness ==
    /\ call_fn = "extend_role_assignment"
    /\ call_secs = 0
    /\ call_token
    /\ call_pc = "done"
    /\ call_ret = Some("Err")
    /\ call_puts = 0

\* C31: get_objects_by_ids sends the ids without a cache entry in chunks of
\* at most 50: every call of get_objects_by_ids_small carries between 1 and
\* 50 ids, each requested id that is not cached is carried by exactly one
\* call, no cached id is carried, and there is no call when every
\* requested id is cached.
Uncached == {id \in chunk_ids : id \notin DOMAIN chunk_cache}

Carrying(id) ==
    {p \in UNION {{<<i, j>> : j \in 1..Len(chunk_calls[i])} :
                    i \in 1..Len(chunk_calls)} :
        chunk_calls[p[1]][p[2]] = id}

C31_ChunksOfAtMostFifty ==
    chunk_pc = "sent" =>
        /\ \A i \in 1..Len(chunk_calls) : Len(chunk_calls[i]) \in 1..50
        /\ \A id \in Uncached : Cardinality(Carrying(id)) = 1
        /\ \A id \in chunk_ids \ Uncached : Carrying(id) = {}
        /\ (Uncached = {} => chunk_calls = <<>>)

\* a call that sends more than one chunk while some of its ids are cached
C31_Witness ==
    /\ chunk_pc = "sent"
    /\ Len(chunk_calls) >= 2
    /\ chunk_ids \ Uncached # {}

\* C32: wait_for_role_activation called with an empty set returns Ok at
\* once: the call returns in its first step, whatever the timeout is,
\* without a list call and without reading the clock.
C32_EmptySetReturnsAtOnce ==
    /\ [][(wpc = "call" /\ input = {}) =>
            (wpc' = "done" /\ wresult' = "Ok" /\ wait_sent' = {}
                /\ start' = start /\ now' = now)]_vars
    /\ []((wpc = "done" /\ input = {}) =>
            (wresult = "Ok" /\ wait_sent = {} /\ listed_at = -1))

\* the wait has returned for an empty set
C32_Witness ==
    /\ wpc = "done"
    /\ input = {}
    /\ wresult = "Ok"

\* C33: wait_for_role_activation only reads the state of the provider: in
\* every execution, the one that times out included, the only request it
\* issues is the GET that lists the active assignments, and no step of the
\* wait changes what is active at the provider.
C33_WaitOnlyReads ==
    /\ [](wait_sent \subseteq {ListActive})
    /\ [][(WaitCall \/ WaitLoop \/ ListOk \/ ListErr) => active' = active]_vars

\* the wait has timed out after it listed, with assignments active
C33_Witness ==
    /\ wresult = "timed out"
    /\ wait_sent = {ListActive}
    /\ active # {}

\* C34: get never changes the map: a get of an absent key or of an expired
\* one (inserted the TTL ago or longer) returns None, every get leaves the
\* stored entries as they are, the expired ones included, and an entry
\* leaves the map only in the sweep of an insert.
C34_GetLeavesMapUnchanged ==
    /\ []((cache_last.op = "get" /\ ~Younger(cache_last.key))
            => cache_last.ret = None)
    /\ [][cache_last'.op = "get" => data' = data]_vars
    /\ [][(\E k \in DOMAIN data : k \notin DOMAIN data')
            => cache_last'.op = "insert"]_vars

\* the assignments of a listing that administrate the target scope
RbacAdmins(set) ==
    {e \in set : contains(e.scope, RbacTarget) /\ e.role \in RBAC_ADMIN_ROLES}

HeldBy(t) == {l \in Locks : lock_holder[l] = t}

WaitsFor(t) ==
    IF lock_rest[t] # <<>> /\ Head(lock_rest[t]).act = "lock"
    THEN lock_holder[Head(lock_rest[t]).lock]
    ELSE 0

\* the order in which nested locks are taken
LockOrder ==
    {<<"group_cache", "object_cache">>, <<"group_cache", "tokens">>,
     <<"object_cache", "tokens">>, <<"role_definitions_cache", "tokens">>}

\* C36: concurrent calls of get_objects_by_ids, group_members,
\* role_definitions, clear_cache and get_token never deadlock: a task
\* takes a lock while it holds another only in the order group cache,
\* object cache, token map, and role-definitions cache before token map,
\* and no set of tasks is reachable in which each waits for a lock that a
\* task of the set holds.
C36_NoDeadlock ==
    /\ [](\A set \in SUBSET LockTasks :
            set # {} => \E t \in set : WaitsFor(t) \notin set)
    /\ [][\A t \in LockTasks : \A l \in HeldBy(t)' \ HeldBy(t) :
            \A h \in HeldBy(t) : <<h, l>> \in LockOrder]_vars

\* a task waits for the object cache while it holds the group cache, and
\* the task that holds the object cache is about to take the token map
C36_Witness ==
    \E t, u \in LockTasks :
        /\ "group_cache" \in HeldBy(t)
        /\ WaitsFor(t) = u
        /\ "object_cache" \in HeldBy(u)
        /\ Head(lock_rest[u]) = Acquire("tokens")

\* an entry of the object cache that is younger than the TTL
Unexpired(id) ==
    id \in DOMAIN obj_cache /\ obj_cache[id].expiration > obj_now

C38_ChildResourcesTerminates ==
    /\ [](\A scope \in ChildScopes : child_requests[scope] <= 1)
    /\ (child_pc = "loop") ~> (child_pc = "returned")
    /\ []((child_pc = "returned" /\ ~child_nested) =>
            /\ child_requests =
                   [scope \in ChildScopes |-> IF scope = child_root THEN 1 ELSE 0]
            /\ child_ret = "Ok" => child_result = children[child_root])

\* a nested call has returned Ok where the root lists itself and a scope
\* that lists the root, and every scope that has children was requested
C38_Witness ==
    /\ child_nested
    /\ child_ret = "Ok"
    /\ child_root \in children[child_root]
    /\ \E scope \in ParentScopes \ {child_root} :
          scope \in children[child_root] /\ child_root \in children[scope]
    /\ \A scope \in ParentScopes : child_requests[scope] = 1

\* C39: clear_cache leaves the group cache as it is, and a call of
\* group_members for a group made after clear_cache has returned and less
\* than the duration of the cache after the latest fetch of the group
\* returns the members of that fetch without a request to the directory.
C39_ClearCacheKeepsGroups ==
    /\ [][(gm_pc' # gm_pc) => gm_groups' = gm_groups]_vars
    /\ []((gm_last.group # 0 /\ gm_last.cleared /\ gm_last.fresh) =>
            /\ gm_last.requests = 0
            /\ gm_last.ret = Some(gm_last.expected))

\* group_members has returned the members of a fetch, at a later instant
\* than the fetch, after a clear_cache that emptied the object cache
C39_Witness ==
    /\ gm_last.group # 0
    /\ gm_last.cleared
    /\ gm_last.fresh
    /\ gm_last.expected # {}
    /\ gm_now > gm_fetched[gm_last.group].at
    /\ gm_objects = EmptyMap
    /\ gm_pc = "ready"

\* a response that is not 429 whose body cannot be read or is not JSON (an
\* empty body is not JSON)
BodyNotJson(o) ==
    /\ ~o.transport
    /\ o.status # TOO_MANY_REQUESTS
    /\ o.body \in {"unreadable", "invalid"}

\* C40: in try_request a response that is not 429 and whose body cannot be
\* read or is not JSON ends the request at once with the error of the
\* reading or decoding, whatever its status and with or without a
\* validator: the attempt is the last one and no validator or status check
\* decides its error.
C40_BodyErrorIsFatal ==
    [][(/\ tries' = tries + 1
        /\ req_kind \in {"send_validated", "send_plain"}
        /\ BodyNotJson(last_outcome'))
          => /\ rpc' = "done"
             /\ req_result' = "Err"
             /\ req_error' \in {"body", "json"}]_vars

\* a request without a validator has been retried once and then ended with
\* the decoding error on a 200 whose body is not JSON, with delays left
C40_Witness ==
    /\ rpc = "done"
    /\ req_kind = "send_plain"
    /\ req_result = "Err"
    /\ req_error = "json"
    /\ tries = 2
    /\ had_delay
    /\ last_outcome.status = 200
    /\ last_outcome.body = "invalid"

====
